---- MODULE Spec2Model ----
(***************************************************************************)
(* SquirrelZip: the Huffman archive codec (package hfc) and the password   *)
(* envelope (package encryption).                                          *)
(*                                                                         *)
(* Bytes and runes are integers, a Go string of '0'/'1' characters is a    *)
(* sequence over {0, 1}, a Go map is a TLA+ function, and the order in     *)
(* which Go ranges over a map is a permutation of its keys that the model  *)
(* chooses nondeterministically.                                           *)
(***************************************************************************)
EXTENDS Integers, Sequences, FiniteSets, TLC

VARIABLES
  \* GetHuffmanCodes / rebuildHuffmanTree on a frequency map
  hpc, freq, order, codes, root,
  \* compressData / decompressData on one field
  cpc, corpus, ccodes, input, compressed, compLen, decompressed, dstatus, splits,
  \* WriteHuffmanCodes / ReadHuffmanCodes on a code table
  tpc, table, torder, tbytes, tread, tused,
  \* Zip / Unzip on a list of files
  apc, files, acodes, container, unzipped, damage, fault,
  \* EncryptStream / DecryptStream on a plaintext
  kpc, plain, password, envelope, dpassword, recovered, eread, dread, corruption,
  esplit, dsplit,
  \* the goroutines of Compress that gather the input files
  gpc, names, gor, gfiles, gsnap, errChan, wg

huffVars == <<hpc, freq, order, codes, root>>
codecVars == <<cpc, corpus, ccodes, input, compressed, compLen, decompressed, dstatus,
               splits>>
tableVars == <<tpc, table, torder, tbytes, tread, tused>>
archVars == <<apc, files, acodes, container, unzipped, damage, fault>>
cryptVars == <<kpc, plain, password, envelope, dpassword, recovered,
               eread, dread, corruption, esplit, dsplit>>
gatherVars == <<gpc, names, gor, gfiles, gsnap, errChan, wg>>
vars == <<huffVars, codecVars, tableVars, archVars, cryptVars, gatherVars>>

(***************************************************************************)
(* Program constants                                                       *)
(***************************************************************************)
BUFFER_SIZE == 256
NO_PASSWORD == 43
PASSWORD == 57
\* the length of the key generateKey returns
KeyLen == 32
\* the byte '0' that generateKey appends to a short password
KeyPad == 48
\* gcm.NonceSize() and gcm.Overhead() of AES-GCM
NonceSize == 12
Overhead == 16

(***************************************************************************)
(* Bounds of the model                                                     *)
(***************************************************************************)
\* byte values 0..MaxSym may occur in a frequency map
MaxSym == 4
\* the counts of a frequency map add up to at most MaxTotal
MaxTotal == 6
\* byte values 0..MaxCodecSym may occur in the data given to the codec
MaxCodecSym == 2
\* the short inputs of the codec are at most MaxLen bytes long
MaxLen == 5
\* the long inputs of the codec fill the first read buffer of the decoder
\* and up to MaxExtra bits more
MaxExtra == 25
\* byte values 0..MaxTableSym may be keys of a code table that is serialised
MaxTableSym == 1
\* every bit string of 1..MaxCodeBits bits may be a code of such a table
MaxCodeBits == 2
\* an archive holds at most MaxFiles files
MaxFiles == 2
\* a plaintext fills at most MaxChunks read buffers of the encrypter, give
\* or take a byte
MaxChunks == 2
\* the most names Compress is called with, one goroutine for each
MaxNames == 3
\* the symbols of the frequency map whose longest code has 33 bits
DeepSyms == 34

(***************************************************************************)
(* Generic helpers                                                         *)
(***************************************************************************)
Min(a, b) == IF a < b THEN a ELSE b

\* the orders in which Go may range over a map with key set S
RECURSIVE Perms(_)
Perms(S) ==
  IF S = {} THEN {<<>>}
  ELSE UNION {{<<x>> \o p : p \in Perms(S \ {x})} : x \in S}

EmptyMap == [k \in {} |-> 0]

\* the keys of S in ascending order
RECURSIVE SortedSeq(_)
SortedSeq(S) ==
  IF S = {} THEN <<>>
  ELSE LET m == CHOOSE x \in S : \A y \in S : x <= y
       IN <<m>> \o SortedSeq(S \ {m})

(***************************************************************************)
(* The Huffman tree: type Node, PriorityQueue and container/heap           *)
(***************************************************************************)
\* &Node{char: c, freq: f}: left and right are nil
Leaf(c, f) == [char |-> c, freq |-> f, kids |-> <<>>]

\* &Node{freq: l.freq + r.freq, left: l, right: r}: char keeps its zero value
Internal(l, r) == [char |-> 0, freq |-> l.freq + r.freq, kids |-> <<l, r>>]

IsLeaf(n) == n.kids = <<>>

\* PriorityQueue.Less on Go indices i, j (0-based)
Less(pq, i, j) ==
  IF pq[i + 1].freq = pq[j + 1].freq
    THEN pq[i + 1].char < pq[j + 1].char
    ELSE pq[i + 1].freq < pq[j + 1].freq

\* PriorityQueue.Swap
Swap(pq, i, j) ==
  [pq EXCEPT ![i + 1] = pq[j + 1], ![j + 1] = pq[i + 1]]

\* container/heap down(h, i, n)
RECURSIVE HeapDown(_, _, _)
HeapDown(pq, i, n) ==
  LET j1 == 2 * i + 1 IN
  IF j1 >= n THEN pq
  ELSE LET j == IF j1 + 1 < n /\ Less(pq, j1 + 1, j1) THEN j1 + 1 ELSE j1 IN
       IF ~Less(pq, j, i) THEN pq ELSE HeapDown(Swap(pq, i, j), j, n)

\* container/heap up(h, j); Go's (j-1)/2 truncates towards zero
RECURSIVE HeapUp(_, _)
HeapUp(pq, j) ==
  LET i == IF j = 0 THEN 0 ELSE (j - 1) \div 2 IN
  IF i = j \/ ~Less(pq, j, i) THEN pq ELSE HeapUp(Swap(pq, i, j), i)

\* container/heap Init: for i := n/2 - 1; i >= 0; i-- { down(h, i, n) }
RECURSIVE HeapInitFrom(_, _)
HeapInitFrom(pq, i) ==
  IF i < 0 THEN pq ELSE HeapInitFrom(HeapDown(pq, i, Len(pq)), i - 1)

HeapInit(pq) == HeapInitFrom(pq, (Len(pq) \div 2) - 1)

\* container/heap Pop: Swap(0, n), down(0, n), then PriorityQueue.Pop
HeapPop(pq) ==
  LET n == Len(pq) - 1
      d == HeapDown(Swap(pq, 0, n), 0, n)
  IN [item |-> d[n + 1], pq |-> SubSeq(d, 1, n)]

\* container/heap Push: PriorityQueue.Push, then up(Len - 1)
HeapPush(pq, x) == HeapUp(Append(pq, x), Len(pq))

\* the loop of buildHuffmanTree: for len(pq) > 1 { pop, pop, push }
RECURSIVE MergeLoop(_)
MergeLoop(pq) ==
  IF Len(pq) <= 1 THEN HeapPop(pq).item
  ELSE LET a == HeapPop(pq)
           b == HeapPop(a.pq)
       IN MergeLoop(HeapPush(b.pq, Internal(a.item, b.item)))

\* buildHuffmanTree for a non-empty map; ord is the order of `range *freq`
buildHuffmanTree(f, ord) ==
  MergeLoop(HeapInit([i \in 1..Len(ord) |-> Leaf(ord[i], f[ord[i]])]))

\* huffmanBuilder that extends the prefix by "0" on both descents
RECURSIVE huffmanBuilderSameBit(_, _)
huffmanBuilderSameBit(node, prefix) ==
  IF IsLeaf(node) THEN (node.char :> prefix)
  ELSE huffmanBuilderSameBit(node.kids[2], Append(prefix, 0))
         @@ huffmanBuilderSameBit(node.kids[1], Append(prefix, 0))

\* huffmanBuilder: the codes of the leaves under node, prefix extended by
\* 0 to the left and 1 to the right
RECURSIVE huffmanBuilder(_, _)
huffmanBuilder(node, prefix) ==
  IF IsLeaf(node) THEN (node.char :> prefix)
  ELSE huffmanBuilder(node.kids[2], Append(prefix, 1))
         @@ huffmanBuilder(node.kids[1], Append(prefix, 0))

\* GetHuffmanCodes for a non-empty frequency map
GetHuffmanCodes(f, ord) == huffmanBuilder(buildHuffmanTree(f, ord), <<>>)

(***************************************************************************)
(* rebuildHuffmanTree: the decoder's tree.  A node is the path of bits     *)
(* that leads to it from the root; the tree maps each allocated node to    *)
(* its char.  A child that is not in the domain is a nil pointer.          *)
(***************************************************************************)
Prefixes(code) == {SubSeq(code, 1, k) : k \in 0..Len(code)}

\* one iteration of `for char, code := range codes`
InsertCode(t, char, code) ==
  [p \in DOMAIN t \cup Prefixes(code) |->
     IF p = code THEN char ELSE IF p \in DOMAIN t THEN t[p] ELSE 0]

RECURSIVE RebuildFrom(_, _, _)
RebuildFrom(t, cs, ord) ==
  IF ord = <<>> THEN t
  ELSE RebuildFrom(InsertCode(t, Head(ord), cs[Head(ord)]), cs, Tail(ord))

\* rebuildHuffmanTree(codes); ord is the order of `range codes`
rebuildHuffmanTree(cs, ord) == RebuildFrom((<<>> :> 0), cs, ord)

\* The orders of `range codes` that rebuildHuffmanTree can tell apart: two
\* insertions write the same node only if their codes are equal, so when
\* all codes differ the insertions commute and one order stands for all.
RangeOrders(cs) ==
  IF \A a, b \in DOMAIN cs : a # b => cs[a] # cs[b]
    THEN {SortedSeq(DOMAIN cs)}
    ELSE Perms(DOMAIN cs)

\* node.left == nil && node.right == nil
TreeLeaf(t, p) == Append(p, 0) \notin DOMAIN t /\ Append(p, 1) \notin DOMAIN t

(***************************************************************************)
(* getFrequencyMap                                                         *)
(***************************************************************************)
\* (*freq)[rune(b)]++ for every byte of the data
getFrequencyMap(data, f) ==
  LET seen == {data[i] : i \in 1..Len(data)} IN
  [b \in DOMAIN f \cup seen |->
     (IF b \in DOMAIN f THEN f[b] ELSE 0)
       + Cardinality({i \in 1..Len(data) : data[i] = b})]

(***************************************************************************)
(* compressData and processByte.  The writer state st holds currentByte    *)
(* (uint8), bitCount (uint8), compressedLength, the bytes written to the   *)
(* output so far and whether processByte returned an error.                *)
(***************************************************************************)
\* the body of `for _, bit := range code`
PushBit(st, bit) ==
  LET cur == ((st.cur * 2) % 256) + bit
      cnt == (st.bits + 1) % 256
  IN IF cnt = 8
       THEN [st EXCEPT !.cur = 0, !.bits = 0, !.clen = st.clen + 1,
                       !.out = Append(st.out, cur)]
       ELSE [st EXCEPT !.cur = cur, !.bits = cnt]

\* the iterations lo..hi of `for _, bit := range code`, in order (split in
\* halves to keep the evaluation shallow)
RECURSIVE PushCode(_, _, _, _)
PushCode(st, code, lo, hi) ==
  IF lo > hi THEN st
  ELSE IF lo = hi THEN PushBit(st, code[lo])
  ELSE LET mid == (lo + hi) \div 2
           st1 == PushCode(st, code, lo, mid)
       IN IF st1.err THEN st1 ELSE PushCode(st1, code, mid + 1, hi)

\* the body of `for _, b := range buf`: an error for a byte without a code
\* ends the loop
ByteStep(b, cs, st) ==
  IF st.err THEN st
  ELSE IF b \notin DOMAIN cs THEN [st EXCEPT !.err = TRUE]
  ELSE PushCode(st, cs[b], 1, Len(cs[b]))

\* the iterations lo..hi of the loop, in order (split in halves to keep
\* the evaluation shallow)
RECURSIVE ProcessRange(_, _, _, _, _)
ProcessRange(buf, lo, hi, cs, st) ==
  IF lo > hi THEN st
  ELSE IF lo = hi THEN ByteStep(buf[lo], cs, st)
  ELSE LET mid == (lo + hi) \div 2
           st1 == ProcessRange(buf, lo, mid, cs, st)
       IN IF st1.err THEN st1 ELSE ProcessRange(buf, mid + 1, hi, cs, st1)

\* processByte(buf, output, codes, &currentByte, &bitCount, &compressedLength)
processByte(buf, cs, st) == ProcessRange(buf, 1, Len(buf), cs, st)

\* the last byte without the padding shift
FinalByteUnshifted(cur, bits) == cur

\* compressData's last byte: currentByte <<= 8 - bitCount, or byte(0)
FinalByte(cur, bits) ==
  IF bits > 0 THEN (cur * (2 ^ (8 - bits))) % 256 ELSE 0

\* the read loop of compressData on a reader that holds data from pos on
\* and fills the buffer as far as it can
RECURSIVE CompressLoop(_, _, _, _)
CompressLoop(data, pos, cs, st) ==
  LET n == Min(BUFFER_SIZE, Len(data) - pos) IN
  IF n = 0
    THEN [err |-> FALSE,
          out |-> st.out \o <<FinalByte(st.cur, st.bits), st.bits>>,
          len |-> st.clen + 2]
    ELSE LET st2 == processByte(SubSeq(data, pos + 1, pos + n), cs, st) IN
         IF st2.err THEN [err |-> TRUE, out |-> st2.out, len |-> 0]
         ELSE CompressLoop(data, pos + n, cs, st2)

\* compressData(input, output, codes): the bytes written and the length
\* returned
compressData(data, cs) ==
  CompressLoop(data, 0, cs,
               [cur |-> 0, bits |-> 0, clen |-> 0, out |-> <<>>, err |-> FALSE])

(***************************************************************************)
(* decompressData.  A uint32 is the sequence of its bits, most significant *)
(* first and at most 32 of them; the decoder state ds holds leftOverByte,  *)
(* leftOverByteCount (uint8), currentNode (a path of the tree, or NilNode),  *)
(* the bytes written and whether the code has panicked.                    *)
(***************************************************************************)
\* x <<= 1; x |= bit on a uint32
Shl32(x, bit) ==
  LET y == Append(x, bit) IN
  IF Len(y) > 32 THEN SubSeq(y, Len(y) - 31, Len(y)) ELSE y

\* (x >> i) & 1 on a uint32
Bit32(x, i) == IF i < Len(x) THEN x[Len(x) - i] ELSE 0

\* (b >> i) & 1 on a byte
BitOf(b, i) == (b \div (2 ^ i)) % 2

\* a nil *Node: no path of bits
NilNode == <<-1>>

\* currentNode.left / currentNode.right
Child(t, p, bit) == IF Append(p, bit) \in DOMAIN t THEN Append(p, bit) ELSE NilNode

\* the body of the bit loop of decompressFullByte
FullBit(t, ds, bit) ==
  IF ds.panic THEN ds
  ELSE LET lob == Shl32(ds.lob, bit)
           cnt == (ds.cnt + 1) % 256
           nd == Child(t, ds.node, bit)
       IN IF nd = NilNode THEN [ds EXCEPT !.panic = TRUE, !.lob = lob, !.cnt = cnt]
          ELSE IF TreeLeaf(t, nd)
            THEN [ds EXCEPT !.out = Append(ds.out, t[nd]), !.node = <<>>,
                            !.lob = <<>>, !.cnt = 0]
            ELSE [ds EXCEPT !.node = nd, !.lob = lob, !.cnt = cnt]

RECURSIVE FullBits(_, _, _, _)
FullBits(t, ds, b, i) ==
  IF i < 0 THEN ds ELSE FullBits(t, FullBit(t, ds, BitOf(b, i)), b, i - 1)

\* the iterations lo..hi of `for _, b := range readBuffer`, in order (split
\* in halves to keep the evaluation shallow)
RECURSIVE FullRange(_, _, _, _, _)
FullRange(t, buf, lo, hi, ds) ==
  IF lo > hi THEN ds
  ELSE IF lo = hi THEN FullBits(t, ds, buf[lo], 7)
  ELSE LET mid == (lo + hi) \div 2
           ds1 == FullRange(t, buf, lo, mid, ds)
       IN IF ds1.panic THEN ds1 ELSE FullRange(t, buf, mid + 1, hi, ds1)

\* decompressFullByte(readBuffer, &leftOverByte, &leftOverByteCount,
\* &currentNode, &root, writer)
decompressFullByte(t, buf, ds) == FullRange(t, buf, 1, Len(buf), ds)

\* the first loop of decompressRemainingBits: the bits 7 .. 8-numOfBits of
\* lastByte are shifted into remainingBits; a shift count below zero panics
RECURSIVE TakeLastBits(_, _, _, _)
TakeLastBits(rs, lastByte, numOfBits, j) ==
  IF j < 8 - numOfBits THEN rs
  ELSE IF j < 0 THEN [rs EXCEPT !.panic = TRUE]
  ELSE TakeLastBits([rs EXCEPT !.bits = Shl32(rs.bits, BitOf(lastByte, j)),
                               !.len = (rs.len + 1) % 256],
                    lastByte, numOfBits, j - 1)

\* the second loop of decompressRemainingBits: walk the tree from the root
\* along the bits i .. 0 of remainingBits
RECURSIVE WalkRemaining(_, _, _, _, _)
WalkRemaining(t, bits, i, node, out) ==
  IF i < 0 THEN [panic |-> FALSE, out |-> out]
  ELSE LET nd == Child(t, node, Bit32(bits, i)) IN
       IF nd = NilNode THEN [panic |-> TRUE, out |-> out]
       ELSE IF TreeLeaf(t, nd)
         THEN WalkRemaining(t, bits, i - 1, <<>>, Append(out, t[nd]))
         ELSE WalkRemaining(t, bits, i - 1, nd, out)

\* decompressRemainingBits without the early return for remainingBitsLen = 0
\* (compressor/hfc/huffman.go:725): int(remainingBitsLen - 1) is then 255
RemainingBitsNoGuard(t, remainingBits, remainingBitsLen, numOfBits, lastByte, out) ==
  LET rs == TakeLastBits([bits |-> remainingBits, len |-> remainingBitsLen,
                          panic |-> FALSE], lastByte, numOfBits, 7)
  IN IF rs.panic THEN [panic |-> TRUE, out |-> out]
     ELSE WalkRemaining(t, rs.bits, ((rs.len + 255) % 256), <<>>, out)

\* decompressRemainingBits(remainingBits, remainingBitsLen, numOfBits,
\* lastByte, output, root)
decompressRemainingBits(t, remainingBits, remainingBitsLen, numOfBits, lastByte, out) ==
  LET rs == TakeLastBits([bits |-> remainingBits, len |-> remainingBitsLen,
                          panic |-> FALSE], lastByte, numOfBits, 7)
  IN IF rs.panic THEN [panic |-> TRUE, out |-> out]
     ELSE IF rs.len = 0 THEN [panic |-> FALSE, out |-> out]
     ELSE WalkRemaining(t, rs.bits, rs.len - 1, <<>>, out)

\* the read loop of decompressData on a reader that holds data from pos on
\* and fills the buffer as far as it can; `last` is <<lastByte[0],
\* lastByteCount[0]>>, toRead is bytesToRead
RECURSIVE DecompressLoop(_, _, _, _, _, _, _, _)
DecompressLoop(t, data, pos, limiter, dataRead, toRead, loopFlag, st) ==
  LET bytesToRead == IF dataRead <= limiter
                       THEN Min(BUFFER_SIZE, limiter - dataRead) ELSE toRead
      n == Min(bytesToRead, Len(data) - pos)
  IN IF n = 0
       THEN LET r == decompressRemainingBits(t, st.ds.lob, st.ds.cnt,
                                             st.last[2], st.last[1], st.ds.out)
            IN [status |-> IF r.panic THEN "panic" ELSE "ok",
                out |-> r.out, read |-> pos]
       ELSE \* adjustBuffer
            LET n2 == IF loopFlag # 0 THEN n + 2 ELSE n
                rb == IF loopFlag # 0
                        THEN st.last \o SubSeq(data, pos + 1, pos + n)
                        ELSE SubSeq(data, pos + 1, pos + n)
            IN IF n2 < 2
                 THEN [status |-> "panic", out |-> st.ds.out, read |-> pos + n]
                 ELSE LET ds2 == decompressFullByte(t, SubSeq(rb, 1, n2 - 2), st.ds) IN
                      IF ds2.panic
                        THEN [status |-> "panic", out |-> ds2.out, read |-> pos + n]
                        ELSE DecompressLoop(t, data, pos + n, limiter, dataRead + n,
                                            bytesToRead, 1,
                                            [last |-> <<rb[n2 - 1], rb[n2]>>, ds |-> ds2])

\* decompressData(reader, writer, codes, limiter) with t the tree that
\* rebuildHuffmanTree(codes) returned and the reader holding data from pos on
decompressData(t, data, pos, limiter) ==
  DecompressLoop(t, data, pos, limiter, 0, BUFFER_SIZE, 0,
                 [last |-> <<0, 0>>,
                  ds |-> [lob |-> <<>>, cnt |-> 0, node |-> <<>>, out |-> <<>>,
                          panic |-> FALSE]])

(***************************************************************************)
(* WriteHuffmanCodes and ReadHuffmanCodes                                  *)
(***************************************************************************)
\* binary.Write(file, binary.LittleEndian, n) for an unsigned integer of
\* w bytes
RECURSIVE LEBytes(_, _)
LEBytes(n, w) == IF w = 0 THEN <<>> ELSE <<n % 256>> \o LEBytes(n \div 256, w - 1)

\* binary.Read(file, binary.LittleEndian, &n) from the bytes bs
RECURSIVE LEValue(_)
LEValue(bs) == IF bs = <<>> THEN 0 ELSE bs[1] + 256 * LEValue(Tail(bs))

\* the body of `for i := 0; i < len(v); i++` in WriteHuffmanCodes: ps holds
\* completeByte, completeByteIndex and the bytes written for this code
PackBit(ps, bit) ==
  LET cb == IF bit = 1 THEN ps.cb + 2 ^ (7 - ps.idx) ELSE ps.cb
      idx == ps.idx + 1
  IN IF idx = 8 THEN [cb |-> 0, idx |-> 0, out |-> Append(ps.out, cb)]
     ELSE [cb |-> cb, idx |-> idx, out |-> ps.out]

\* the iterations lo..hi of that loop, in order (split in halves, the
\* first half evaluated first, to keep the evaluation shallow)
RECURSIVE PackRange(_, _, _, _)
PackRange(v, lo, hi, ps) ==
  IF lo > hi THEN ps
  ELSE IF lo = hi THEN PackBit(ps, v[lo])
  ELSE LET mid == (lo + hi) \div 2
           ps1 == PackRange(v, lo, mid, ps)
       IN IF ps1.idx < 8 THEN PackRange(v, mid + 1, hi, ps1) ELSE ps1

\* the packed bits of a code, with the last byte written if it is not
\* complete
PackBits(v) ==
  LET ps == PackRange(v, 1, Len(v), [cb |-> 0, idx |-> 0, out |-> <<>>])
  IN IF ps.idx > 0 THEN Append(ps.out, ps.cb) ELSE ps.out

\* one iteration of `for k, v := range codes`: the rune, the bit length as
\* a uint8, the packed bits
WriteEntry(k, v) == LEBytes(k, 4) \o <<Len(v) % 256>> \o PackBits(v)

RECURSIVE WriteEntries(_, _)
WriteEntries(cs, ord) ==
  IF ord = <<>> THEN <<>>
  ELSE WriteEntry(Head(ord), cs[Head(ord)]) \o WriteEntries(cs, Tail(ord))

\* WriteHuffmanCodes(file, codes); ord is the order of `range codes`
WriteHuffmanCodes(cs, ord) == LEBytes(Len(ord), 8) \o WriteEntries(cs, ord)


\* int((codeLen+7)/8) with codeLen a uint8: the sum wraps at 256
CodeBitsSize(codeLen) == ((codeLen + 7) % 256) \div 8

\* the body of `for bitIndex := 0; bitIndex < int(codeLen); bitIndex++` in
\* ReadHuffmanCodes; an index past the end of codeBits panics
UnpackBit(codeBits, bitIndex, us) ==
  LET byteIndex == bitIndex \div 8
      bitPos == 7 - (bitIndex % 8)
  IN IF us.panic THEN us
     ELSE IF byteIndex >= Len(codeBits) THEN [us EXCEPT !.panic = TRUE]
     ELSE [us EXCEPT !.code = Append(us.code, BitOf(codeBits[byteIndex + 1], bitPos))]

\* the iterations lo..hi of that loop, in order
RECURSIVE UnpackRange(_, _, _, _)
UnpackRange(codeBits, lo, hi, us) ==
  IF lo > hi THEN us
  ELSE IF lo = hi THEN UnpackBit(codeBits, lo, us)
  ELSE LET mid == (lo + hi) \div 2
           us1 == UnpackRange(codeBits, lo, mid, us)
       IN IF us1.panic THEN us1 ELSE UnpackRange(codeBits, mid + 1, hi, us1)

\* the string of codeLen bits read back from codeBits
UnpackBits(codeBits, codeLen) ==
  UnpackRange(codeBits, 0, codeLen - 1, [code |-> <<>>, panic |-> FALSE])

\* the loop `for i := uint64(0); i < numCodes; i++` of ReadHuffmanCodes on
\* a reader that holds data from pos on: a short binary.Read is an error,
\* file.Read fills codeBits as far as it can and fails only at the end of
\* the data
RECURSIVE ReadEntries(_, _, _, _)
ReadEntries(data, pos, left, cs) ==
  IF left = 0 THEN [status |-> "ok", codes |-> cs, pos |-> pos]
  ELSE IF Len(data) - pos < 5 THEN [status |-> "error", codes |-> cs, pos |-> Len(data)]
  ELSE LET r == LEValue(SubSeq(data, pos + 1, pos + 4))
           codeLen == data[pos + 5]
           size == CodeBitsSize(codeLen)
           got == Min(size, Len(data) - (pos + 5))
           codeBits == SubSeq(data, pos + 6, pos + 5 + got) \o [i \in 1..(size - got) |-> 0]
       IN IF size > 0 /\ got = 0
            THEN [status |-> "error", codes |-> cs, pos |-> pos + 5]
            ELSE LET us == UnpackBits(codeBits, codeLen) IN
                 IF us.panic
                   THEN [status |-> "panic", codes |-> cs, pos |-> pos + 5 + got]
                   ELSE ReadEntries(data, pos + 5 + got, left - 1,
                                    (r :> us.code) @@ cs)

\* ReadHuffmanCodes(file) on a reader that holds data from pos on
ReadHuffmanCodes(data, pos) ==
  IF Len(data) - pos < 8 THEN [status |-> "error", codes |-> EmptyMap, pos |-> Len(data)]
  ELSE ReadEntries(data, pos + 8, LEValue(SubSeq(data, pos + 1, pos + 8)), EmptyMap)

(***************************************************************************)
(* Specification SpecHuff: GetHuffmanCodes and rebuildHuffmanTree applied  *)
(* to every frequency map within the bounds.                               *)
(***************************************************************************)
RECURSIVE SumOf(_)
SumOf(f) ==
  IF DOMAIN f = {} THEN 0
  ELSE LET k == CHOOSE x \in DOMAIN f : TRUE
       IN f[k] + SumOf([x \in DOMAIN f \ {k} |-> f[x]])

FreqMaps ==
  UNION {{f \in [S -> 1..(MaxTotal - Cardinality(S) + 1)] : SumOf(f) <= MaxTotal} :
           S \in {T \in SUBSET (0..MaxSym) : Cardinality(T) <= MaxTotal}}

\* no reader of a payload fails
NoFault == [file |-> 0, read |-> 0]

HuffIdle ==
  /\ hpc = "idle"
  /\ freq = EmptyMap
  /\ order = <<>>
  /\ codes = EmptyMap
  /\ root = (<<>> :> 0)

CodecIdle ==
  /\ cpc = "idle"
  /\ corpus = <<>>
  /\ ccodes = EmptyMap
  /\ input = <<>>
  /\ compressed = <<>>
  /\ compLen = 0
  /\ decompressed = <<>>
  /\ dstatus = "none"
  /\ splits = <<>>

TableIdle ==
  /\ tpc = "idle"
  /\ table = EmptyMap
  /\ torder = <<>>
  /\ tbytes = <<>>
  /\ tread = EmptyMap
  /\ tused = 0

ArchIdle ==
  /\ apc = "idle"
  /\ files = <<>>
  /\ acodes = EmptyMap
  /\ container = <<>>
  /\ unzipped = <<>>
  /\ damage = "none"
  /\ fault = NoFault

CryptIdle ==
  /\ kpc = "idle"
  /\ plain = <<>>
  /\ password = <<>>
  /\ envelope = <<>>
  /\ dpassword = <<>>
  /\ recovered = <<>>
  /\ eread = 0
  /\ dread = 0
  /\ corruption = "none"
  /\ esplit = <<>>
  /\ dsplit = <<>>

GatherIdle ==
  /\ gpc = "idle"
  /\ names = <<>>
  /\ gor = <<>>
  /\ gfiles = <<>>
  /\ gsnap = <<>>
  /\ errChan = <<>>
  /\ wg = 0

HuffInit ==
  /\ hpc = "start"
  /\ freq \in FreqMaps
  /\ order = <<>>
  /\ codes = EmptyMap
  /\ root = (<<>> :> 0)
  /\ CodecIdle
  /\ TableIdle
  /\ ArchIdle
  /\ CryptIdle
  /\ GatherIdle

\* buildHuffmanTree on an empty map: errors.New("frequency map is empty")
HuffEmpty ==
  /\ hpc = "start"
  /\ DOMAIN freq = {}
  /\ hpc' = "error"
  /\ UNCHANGED <<freq, order, codes, root,
                 codecVars, tableVars, archVars, cryptVars, gatherVars>>

\* GetHuffmanCodes(&freq); the map is ranged over in the order ord
HuffGetCodes ==
  /\ hpc = "start"
  /\ DOMAIN freq # {}
  /\ \E ord \in Perms(DOMAIN freq) :
       /\ order' = ord
       /\ codes' = GetHuffmanCodes(freq, ord)
  /\ hpc' = "coded"
  /\ UNCHANGED <<freq, root,
                 codecVars, tableVars, archVars, cryptVars, gatherVars>>

\* rebuildHuffmanTree(codes)
HuffRebuild ==
  /\ hpc = "coded"
  /\ \E ord \in RangeOrders(codes) : root' = rebuildHuffmanTree(codes, ord)
  /\ hpc' = "rebuilt"
  /\ UNCHANGED <<freq, order, codes,
                 codecVars, tableVars, archVars, cryptVars, gatherVars>>

HuffNext == HuffEmpty \/ HuffGetCodes \/ HuffRebuild

SpecHuff == HuffInit /\ [][HuffNext]_vars

\* one code is a prefix of the other (equal codes included)
IsPrefix(a, b) == Len(a) <= Len(b) /\ SubSeq(b, 1, Len(a)) = a

\* C4: for a given frequency map GetHuffmanCodes returns the same codes
\* whatever the order in which the map's entries enter the priority queue.
C4_OrderIndependent ==
  hpc = "coded" =>
    \A o \in Perms(DOMAIN freq) : GetHuffmanCodes(freq, o) = codes

\* C6: every code of a freshly built table is 1 to 255 bits long; a single
\* distinct byte gets a one-bit code.
C6_CodeLengths ==
  hpc = "coded" =>
    /\ \A c \in DOMAIN codes : Len(codes[c]) >= 1 /\ Len(codes[c]) <= 255
    /\ (Cardinality(DOMAIN freq) = 1 => \A c \in DOMAIN codes : Len(codes[c]) = 1)

\* C7: the table's keys are the frequency map's keys, no code is a prefix
\* of another, and the rebuilt tree holds every byte at the leaf its code
\* leads to, distinct bytes at distinct leaves.
C7_PrefixCode ==
  /\ hpc \in {"coded", "rebuilt"} =>
        /\ DOMAIN codes = DOMAIN freq
        /\ \A a, b \in DOMAIN codes : a # b => ~IsPrefix(codes[a], codes[b])
  /\ hpc = "rebuilt" =>
        /\ \A c \in DOMAIN codes :
              /\ codes[c] \in DOMAIN root
              /\ root[codes[c]] = c
              /\ TreeLeaf(root, codes[c])
        /\ \A a, b \in DOMAIN codes : a # b => codes[a] # codes[b]

C7_Witness == hpc = "rebuilt" /\ Cardinality(DOMAIN freq) >= 3

(***************************************************************************)
(* Specification SpecCodec: the frequency pass and GetHuffmanCodes on a    *)
(* corpus, then compressData and decompressData on one field of it, as     *)
(* Zip and Unzip do for every name and payload.                            *)
(***************************************************************************)
RECURSIVE SeqsUpTo(_, _)
SeqsUpTo(S, n) ==
  IF n = 0 THEN {<<>>}
  ELSE LET shorter == SeqsUpTo(S, n - 1) IN
       shorter \cup {Append(q, x) : q \in {r \in shorter : Len(r) = n - 1}, x \in S}

\* the pattern pat repeated up to length n
Rep(pat, n) == [i \in 1..n |-> pat[((i - 1) % Len(pat)) + 1]]

\* inputs whose encoding is as long as the decoder's read buffer, or up to
\* MaxExtra bits longer: 1 bit a byte for <<0, 1>>, 3 bits for 2 bytes for
\* <<0, 1, 2, 2>>
LongCorpora ==
  {Rep(<<0, 1>>, 8 * (BUFFER_SIZE - 2) + d) : d \in 0..MaxExtra}
    \cup {Rep(<<0, 1, 2, 2>>, ((16 * (BUFFER_SIZE - 2)) \div 3) + d) : d \in 0..MaxExtra}

Corpora == SeqsUpTo(0..MaxCodecSym, MaxLen) \cup LongCorpora

\* the fields taken from a corpus: every contiguous piece of a short one,
\* the whole of a long one
Pieces(c) ==
  IF Len(c) <= MaxLen
    THEN {SubSeq(c, i, j) : i \in 1..(Len(c) + 1), j \in 0..Len(c)}
    ELSE {c}

CodecInit ==
  /\ cpc = "start"
  /\ corpus \in Corpora
  /\ ccodes = EmptyMap
  /\ input = <<>>
  /\ compressed = <<>>
  /\ compLen = 0
  /\ decompressed = <<>>
  /\ dstatus = "none"
  /\ splits = <<>>
  /\ HuffIdle
  /\ TableIdle
  /\ ArchIdle
  /\ CryptIdle
  /\ GatherIdle

\* GetHuffmanCodes on the frequency map of an empty corpus returns an error
CodecEmpty ==
  /\ cpc = "start"
  /\ corpus = <<>>
  /\ cpc' = "error"
  /\ UNCHANGED <<corpus, ccodes, input, compressed, compLen, decompressed, dstatus, splits,
                 huffVars, tableVars, archVars, cryptVars, gatherVars>>

\* getFrequencyMap, then GetHuffmanCodes
CodecBuild ==
  /\ cpc = "start"
  /\ corpus # <<>>
  /\ LET f == getFrequencyMap(corpus, EmptyMap) IN
     \E ord \in Perms(DOMAIN f) : ccodes' = GetHuffmanCodes(f, ord)
  /\ cpc' = "coded"
  /\ UNCHANGED <<corpus, input, compressed, compLen, decompressed, dstatus, splits,
                 huffVars, tableVars, archVars, cryptVars, gatherVars>>

\* compressData on one field of the corpus
CodecCompress ==
  /\ cpc = "coded"
  /\ \E piece \in Pieces(corpus) :
       LET r == compressData(piece, ccodes) IN
       /\ input' = piece
       /\ compressed' = r.out
       /\ compLen' = r.len
       /\ cpc' = IF r.err THEN "error" ELSE "compressed"
  /\ UNCHANGED <<corpus, ccodes, decompressed, dstatus, splits,
                 huffVars, tableVars, archVars, cryptVars, gatherVars>>

\* decompressData on the field as it is, limiter the length compressData
\* returned
CodecDecompress ==
  /\ cpc \in {"compressed", "damaged"}
  /\ \E ord \in RangeOrders(ccodes) :
       LET r == decompressData(rebuildHuffmanTree(ccodes, ord), compressed, 0, compLen) IN
       /\ decompressed' = r.out
       /\ dstatus' = r.status
  /\ cpc' = "decompressed"
  /\ UNCHANGED <<corpus, ccodes, input, compressed, compLen, splits,
                 huffVars, tableVars, archVars, cryptVars, gatherVars>>

CodecNext == CodecEmpty \/ CodecBuild \/ CodecCompress \/ CodecDecompress

SpecCodec == CodecInit /\ [][CodecNext]_vars

\* the bits of the codes of the bytes lo..hi of data, in order
RECURSIVE BitsRange(_, _, _, _)
BitsRange(data, cs, lo, hi) ==
  IF lo > hi THEN <<>>
  ELSE IF lo = hi THEN cs[data[lo]]
  ELSE LET mid == (lo + hi) \div 2 IN
       BitsRange(data, cs, lo, mid) \o BitsRange(data, cs, mid + 1, hi)

BitsOf(data, cs) == BitsRange(data, cs, 1, Len(data))

\* the byte whose most significant bits are bs, zero bits after them
RECURSIVE ByteOfBits(_, _)
ByteOfBits(bs, k) ==
  IF k > 8 THEN 0
  ELSE (IF k <= Len(bs) THEN bs[k] * (2 ^ (8 - k)) ELSE 0) + ByteOfBits(bs, k + 1)

\* C1: compressData, then decompressData with the returned length as
\* limiter, reproduces every non-empty input whose frequency map the codes
\* were built from.
C1_RoundTrip ==
  (cpc = "decompressed" /\ input = corpus) =>
    (dstatus = "ok" /\ decompressed = input)

\* C8: when the bit stream of a field ends on a byte boundary (trailer
\* (0, 0)), decompressData emits the symbols encoded in the full bytes and
\* nothing more; an empty payload is the trailer alone and decodes to
\* nothing.
C8_ByteBoundary ==
  (cpc = "decompressed" /\ compressed[Len(compressed)] = 0) =>
    /\ dstatus = "ok"
    /\ compressed[Len(compressed) - 1] = 0
    /\ Len(BitsOf(decompressed, ccodes)) = 8 * (Len(compressed) - 2)
    /\ \A k \in 1..(Len(compressed) - 2) :
         compressed[k] = ByteOfBits(SubSeq(BitsOf(decompressed, ccodes), 8 * k - 7, 8 * k), 1)
    /\ (input = <<>> => compressed = <<0, 0>> /\ decompressed = <<>>)

C8_Witness ==
  /\ cpc = "decompressed"
  /\ compressed[Len(compressed)] = 0
  /\ Len(compressed) = 3
  /\ Len(decompressed) >= 4

\* C9: for an encoded bit stream of B bits compressData writes floor(B/8)
\* full bytes, most significant bit first, then the remaining B mod 8 bits
\* left-aligned in a zero-padded byte, then the byte B mod 8, and returns
\* floor(B/8) + 2.
C9_Layout ==
  cpc \in {"compressed", "decompressed"} =>
    LET bs == BitsOf(input, ccodes)
        full == Len(bs) \div 8
    IN /\ compLen = full + 2
       /\ Len(compressed) = full + 2
       /\ \A k \in 1..full : compressed[k] = ByteOfBits(SubSeq(bs, 8 * k - 7, 8 * k), 1)
       /\ compressed[full + 1] = ByteOfBits(SubSeq(bs, 8 * full + 1, Len(bs)), 1)
       /\ compressed[full + 2] = Len(bs) % 8

\* full bytes followed by a final byte that holds some bits
C9_Witness ==
  /\ cpc = "compressed"
  /\ Len(compressed) >= 3
  /\ compressed[Len(compressed)] > 0
  /\ compressed[Len(compressed) - 1] > 0

(***************************************************************************)
(* Specification SpecTable: WriteHuffmanCodes, then ReadHuffmanCodes on    *)
(* the bytes written, for code tables with short and with long codes.      *)
(***************************************************************************)
\* code lengths around the byte boundaries of the packed bits, up to the
\* longest length the uint8 length field can hold
LongCodeLens == {7, 8, 9, 16, 17, 248, 249, 255}

TableCodes ==
  (SeqsUpTo({0, 1}, MaxCodeBits) \ {<<>>})
    \cup {Rep(<<1, 0>>, n) : n \in LongCodeLens}

\* the tables handed to WriteHuffmanCodes: prefix codes, as GetHuffmanCodes
\* and rebuildHuffmanTree require
CodeTables ==
  {t \in UNION {[S -> TableCodes] : S \in SUBSET (0..MaxTableSym)} :
     \A a, b \in DOMAIN t : a # b => ~IsPrefix(t[a], t[b])}

TableInit ==
  /\ tpc = "start"
  /\ table \in CodeTables
  /\ torder = <<>>
  /\ tbytes = <<>>
  /\ tread = EmptyMap
  /\ tused = 0
  /\ HuffIdle
  /\ CodecIdle
  /\ ArchIdle
  /\ CryptIdle
  /\ GatherIdle

\* WriteHuffmanCodes(file, codes); the map is ranged over in the order ord
TableWrite ==
  /\ tpc = "start"
  /\ \E ord \in Perms(DOMAIN table) :
       /\ torder' = ord
       /\ tbytes' = WriteHuffmanCodes(table, ord)
  /\ tpc' = "written"
  /\ UNCHANGED <<table, tread, tused,
                 huffVars, codecVars, archVars, cryptVars, gatherVars>>

\* ReadHuffmanCodes(file) on the bytes written
TableRead ==
  /\ tpc = "written"
  /\ LET r == ReadHuffmanCodes(tbytes, 0) IN
     /\ tread' = r.codes
     /\ tused' = r.pos
     /\ tpc' = IF r.status = "ok" THEN "read" ELSE r.status
  /\ UNCHANGED <<table, torder, tbytes,
                 huffVars, codecVars, archVars, cryptVars, gatherVars>>

TableNext == TableWrite \/ TableRead

SpecTable == TableInit /\ [][TableNext]_vars

\* C5: for a given code map WriteHuffmanCodes emits the same bytes on
\* every run, whatever the order in which the map is ranged over.
C5_SameBytes ==
  tpc = "written" =>
    \A o \in Perms(DOMAIN table) : WriteHuffmanCodes(table, o) = tbytes

\* C10: ReadHuffmanCodes on the bytes WriteHuffmanCodes wrote returns the
\* table that was written, for codes of 1 to 255 bits, and consumes
\* ceil(bitLength/8) packed bytes for every entry (all the bytes written).
C10_TableRoundTrip ==
  tpc \in {"read", "error", "panic"} =>
    /\ tpc = "read"
    /\ tread = table
    /\ tused = Len(tbytes)

(***************************************************************************)
(* Zip and Unzip.  A file is a record [name, data] of two byte sequences;  *)
(* the container is the byte sequence the output file holds.               *)
(***************************************************************************)
\* the frequency pass of generateCodes over the names and the contents
RECURSIVE FilesFrequency(_, _, _)
FilesFrequency(fs, i, f) ==
  IF i > Len(fs) THEN f
  ELSE FilesFrequency(fs, i + 1,
                      getFrequencyMap(fs[i].data, getFrequencyMap(fs[i].name, f)))

\* writeFileName(fileName, output, codes): the uint16 length and the bytes
\* of the compressed name
writeFileName(fileName, cs) ==
  LET c == compressData(fileName, cs) IN
  [err |-> c.err, out |-> LEBytes(c.len % 65536, 2) \o c.out]

\* binary.Write of an 8-byte value at offset off of the output, which
\* overwrites what is there and extends the output if it reaches past the end
WriteAt(out, off, bs) ==
  [i \in 1..(IF off + Len(bs) > Len(out) THEN off + Len(bs) ELSE Len(out)) |->
     IF i > off /\ i <= off + Len(bs) THEN bs[i - off] ELSE out[i]]

\* the loop body of Zip seeking back by compressedLen only
ZipFileSeekShort(out, file, cs) ==
  LET nm == writeFileName(file.name, cs)
      c == compressData(file.data, cs)
      out3 == out \o nm.out \o LEBytes(0, 8) \o c.out
      off == Len(out3) - c.len
  IN IF nm.err \/ c.err \/ off < 0 THEN [err |-> TRUE, out |-> out3]
     ELSE [err |-> FALSE, out |-> WriteAt(out3, off, LEBytes(c.len, 8))]

\* one iteration of `for _, file := range files` in Zip: the name, the
\* 8-byte placeholder, the compressed data, then the seek back by
\* compressedLen + 8 to write compressedLen over the placeholder
ZipFile(out, file, cs) ==
  LET nm == writeFileName(file.name, cs)
      c == compressData(file.data, cs)
      out3 == out \o nm.out \o LEBytes(0, 8) \o c.out
      off == Len(out3) - (c.len + 8)
  IN IF nm.err \/ c.err \/ off < 0 THEN [err |-> TRUE, out |-> out3]
     ELSE [err |-> FALSE, out |-> WriteAt(out3, off, LEBytes(c.len, 8))]

RECURSIVE ZipFiles(_, _, _, _)
ZipFiles(out, fs, i, cs) ==
  IF i > Len(fs) THEN [err |-> FALSE, out |-> out]
  ELSE LET z == ZipFile(out, fs[i], cs) IN
       IF z.err THEN z ELSE ZipFiles(z.out, fs, i + 1, cs)

\* Zip(files, output) once generateCodes has returned the codes cs and
\* written them ranging over the map in the order ord
Zip(fs, cs, ord) ==
  ZipFiles(WriteHuffmanCodes(cs, ord) \o LEBytes(Len(fs), 8), fs, 1, cs)

\* os.Create(filepath.Join(outputPath, fileName)): the empty name joins to
\* the output directory itself, which cannot be created as a file
CreateFails(fileName) == fileName = <<>>

\* the loop `for i := uint64(0); i < numOfFiles; i++` of Unzip with the
\* input at pos, t the tree rebuilt from the codes and done the files
\* written so far
RECURSIVE UnzipLoop(_, _, _, _, _)
UnzipLoop(data, pos, left, t, done) ==
  IF left = 0 THEN [status |-> "ok", files |-> done]
  ELSE IF Len(data) - pos < 2 THEN [status |-> "error", files |-> done]
  ELSE LET nameLen == LEValue(SubSeq(data, pos + 1, pos + 2))
           p1 == pos + 2 + nameLen
       IN IF Len(data) < p1 THEN [status |-> "error", files |-> done]
          ELSE LET nm == decompressData(t, SubSeq(data, pos + 3, p1), 0, nameLen) IN
               IF nm.status # "ok" THEN [status |-> nm.status, files |-> done]
               ELSE IF CreateFails(nm.out) THEN [status |-> "error", files |-> done]
               ELSE IF Len(data) - p1 < 8
                 THEN [status |-> "error",
                       files |-> Append(done, [name |-> nm.out, data |-> <<>>])]
               ELSE LET compressedSize == LEValue(SubSeq(data, p1 + 1, p1 + 8))
                        d == decompressData(t, data, p1 + 8, compressedSize)
                        written == Append(done, [name |-> nm.out, data |-> d.out])
                    IN IF d.status # "ok" THEN [status |-> d.status, files |-> written]
                       ELSE UnzipLoop(data, d.read, left - 1, t, written)

\* Unzip without the test `numOfFiles < 1`
UnzipAnyCount(data, ord) ==
  LET r == ReadHuffmanCodes(data, 0) IN
  IF r.status # "ok" THEN [status |-> r.status, files |-> <<>>]
  ELSE IF Len(data) - r.pos < 8 THEN [status |-> "error", files |-> <<>>]
  ELSE UnzipLoop(data, r.pos + 8, LEValue(SubSeq(data, r.pos + 1, r.pos + 8)),
                 rebuildHuffmanTree(r.codes, ord), <<>>)

\* Unzip(input, outputPath); ord is the order in which rebuildHuffmanTree
\* ranges over the codes that were read
Unzip(data, ord) ==
  LET r == ReadHuffmanCodes(data, 0) IN
  IF r.status # "ok" THEN [status |-> r.status, files |-> <<>>]
  ELSE IF Len(data) - r.pos < 8 THEN [status |-> "error", files |-> <<>>]
  ELSE LET numOfFiles == LEValue(SubSeq(data, r.pos + 1, r.pos + 8)) IN
       IF numOfFiles < 1 THEN [status |-> "error", files |-> <<>>]
       ELSE UnzipLoop(data, r.pos + 8, numOfFiles,
                      rebuildHuffmanTree(r.codes, ord), <<>>)

(***************************************************************************)
(* Specification SpecArchive: Zip on every list of at most MaxFiles files  *)
(* with the names and contents below, then Unzip on the container.         *)
(***************************************************************************)
ArchNames == {<<0>>, <<1>>, <<0, 1>>}

\* the last one is encoded in a full byte or more
ArchPayloads == {<<>>, <<0>>, <<1, 1>>, <<1, 0, 1>>, <<2, 0>>, Rep(<<1, 0>>, 8)}

ArchFiles == [name : ArchNames, data : ArchPayloads]

FileLists == UNION {[1..n -> ArchFiles] : n \in 0..MaxFiles}

ArchInit ==
  /\ apc = "start"
  /\ files \in FileLists
  /\ acodes = EmptyMap
  /\ container = <<>>
  /\ unzipped = <<>>
  /\ damage = "none"
  /\ fault = NoFault
  /\ HuffIdle
  /\ CodecIdle
  /\ TableIdle
  /\ CryptIdle
  /\ GatherIdle

\* Zip(files, output): generateCodes, writeNumOfFiles and the loop over the
\* files.  With no byte to count generateCodes returns the error of
\* buildHuffmanTree and nothing is written.
ArchZip ==
  /\ apc = "start"
  /\ LET f == FilesFrequency(files, 1, EmptyMap) IN
     IF DOMAIN f = {}
       THEN /\ apc' = "error"
            /\ UNCHANGED <<acodes, container>>
       ELSE \E ord \in Perms(DOMAIN f) :
              LET cs == GetHuffmanCodes(f, ord) IN
              \E word \in Perms(DOMAIN cs) :
                LET z == Zip(files, cs, word) IN
                /\ acodes' = cs
                /\ container' = z.out
                /\ apc' = IF z.err THEN "error" ELSE "zipped"
  /\ UNCHANGED <<files, unzipped, damage, fault,
                 huffVars, codecVars, tableVars, cryptVars, gatherVars>>

\* Unzip(input, outputPath) on the container as it is
ArchUnzip ==
  /\ apc \in {"zipped", "damaged"}
  /\ LET r == ReadHuffmanCodes(container, 0) IN
     \E ord \in RangeOrders(r.codes) :
       LET u == Unzip(container, ord) IN
       /\ unzipped' = u.files
       /\ apc' = IF u.status = "ok" THEN "unzipped" ELSE u.status
  /\ UNCHANGED <<files, acodes, container, damage, fault,
                 huffVars, codecVars, tableVars, cryptVars, gatherVars>>

ArchNext == ArchZip \/ ArchUnzip

SpecArchive == ArchInit /\ [][ArchNext]_vars

\* C2: Unzip on the container Zip wrote for a non-empty list of files
\* returns without error and writes the same number of files in the same
\* order, every name and content equal to the original.
C2_ArchiveRoundTrip ==
  apc \in {"unzipped", "error", "panic"} /\ files # <<>> =>
    apc = "unzipped" /\ unzipped = files

(***************************************************************************)
(* EncryptStream and DecryptStream.  A password is the sequence of its     *)
(* bytes.  AES-GCM is an ideal cipher: a sealed byte is a record of the    *)
(* key, the nonce, its position in the chunk and what it hides (one        *)
(* plaintext byte, or the whole plaintext for a byte of the tag), so that  *)
(* a chunk opens only under the key and nonce it was sealed with and only  *)
(* if it is whole and unmodified.                                          *)
(***************************************************************************)
\* generateKey that pads with the byte 0
generateKeyZeroPad(pw) ==
  IF Len(pw) > KeyLen THEN [err |-> TRUE, key |-> <<>>]
  ELSE [err |-> FALSE, key |-> pw \o [i \in 1..(KeyLen - Len(pw)) |-> 0]]

\* generateKey(password)
generateKey(pw) ==
  IF Len(pw) > KeyLen THEN [err |-> TRUE, key |-> <<>>]
  ELSE [err |-> FALSE, key |-> pw \o [i \in 1..(KeyLen - Len(pw)) |-> KeyPad]]

\* gcm.Seal(nil, nonce, plaintext, nil)
Seal(key, nonce, pt) ==
  [i \in 1..Len(pt) |-> [t |-> "ct", k |-> key, n |-> nonce, i |-> i, v |-> <<pt[i]>>]]
    \o [j \in 1..Overhead |-> [t |-> "tag", k |-> key, n |-> nonce, i |-> j, v |-> pt]]

\* gcm.Open(nil, nonce, ciphertext, nil)
Open(key, nonce, ct) ==
  IF Len(ct) < Overhead THEN [err |-> TRUE, pt |-> <<>>]
  ELSE LET pt == [i \in 1..(Len(ct) - Overhead) |->
                    IF ct[i].v = <<>> THEN 0 ELSE ct[i].v[1]]
       IN IF ct = Seal(key, nonce, pt) THEN [err |-> FALSE, pt |-> pt]
          ELSE [err |-> TRUE, pt |-> <<>>]

\* writeMetadata(writer, password)
writeMetadata(pw) == IF pw = <<>> THEN <<NO_PASSWORD>> ELSE <<PASSWORD>>

\* processStream that seals everything the reader holds as one chunk
processStreamWhole(data, pos, key, nonce, out) ==
  IF Len(data) = pos THEN out
  ELSE out \o Seal(key, nonce, SubSeq(data, pos + 1, Len(data)))

\* processStream on a reader that holds data from pos on and fills the
\* buffer as far as it can: every chunk read is sealed with the same nonce
RECURSIVE processStream(_, _, _, _, _)
processStream(data, pos, key, nonce, out) ==
  LET n == Min(BUFFER_SIZE, Len(data) - pos) IN
  IF n = 0 THEN out
  ELSE processStream(data, pos + n, key, nonce,
                     out \o Seal(key, nonce, SubSeq(data, pos + 1, pos + n)))

\* EncryptStream(reader, writer, password) with the nonce that
\* generateNonce drew: the status returned, the bytes written and the
\* number of bytes read from the reader
EncryptStream(data, pw, nonce) ==
  LET meta == writeMetadata(pw)
      k == generateKey(pw)
  IN IF pw = <<>> THEN [err |-> FALSE, out |-> meta \o data, read |-> Len(data)]
     ELSE IF k.err THEN [err |-> TRUE, out |-> meta, read |-> 0]
     ELSE [err |-> FALSE,
           out |-> processStream(data, 0, k.key, nonce, meta \o nonce),
           read |-> Len(data)]

\* the buffer of decryptStream without room for the tag
DecryptBufferNoOverhead(overhead) == BUFFER_SIZE

\* len(buf) in decryptStream: make([]byte, BUFFER_SIZE + gcm.Overhead())
DecryptBuffer(overhead) == BUFFER_SIZE + overhead

\* decryptStream on a reader that holds data from pos on and fills the
\* buffer as far as it can; out is what has been written.  The result is
\* the status returned, the bytes written and the position of the reader.
RECURSIVE decryptStream(_, _, _, _, _)
decryptStream(data, pos, key, nonce, out) ==
  LET n == Min(DecryptBuffer(Overhead), Len(data) - pos) IN
  IF n = 0 THEN [err |-> FALSE, out |-> out, read |-> pos]
  ELSE LET o == Open(key, nonce, SubSeq(data, pos + 1, pos + n)) IN
       IF o.err THEN [err |-> TRUE, out |-> out, read |-> pos + n]
       ELSE decryptStream(data, pos + n, key, nonce, out \o o.pt)

\* decryptWithPassword without the test for the empty password
decryptWithAnyPassword(data, pw) ==
  LET k == generateKey(pw) IN
  IF k.err THEN [err |-> TRUE, out |-> <<>>, read |-> 1]
  ELSE IF Len(data) - 1 < NonceSize
    THEN [err |-> TRUE, out |-> <<>>, read |-> Len(data)]
  ELSE decryptStream(data, 1 + NonceSize, k.key,
                     SubSeq(data, 2, 1 + NonceSize), <<>>)

\* decryptWithPassword(reader, writer, password), the reader past the
\* sentinel
decryptWithPassword(data, pw) ==
  LET k == generateKey(pw) IN
  IF pw = <<>> \/ k.err THEN [err |-> TRUE, out |-> <<>>, read |-> 1]
  ELSE IF Len(data) - 1 < NonceSize
    THEN [err |-> TRUE, out |-> <<>>, read |-> Len(data)]
  ELSE decryptStream(data, 1 + NonceSize, k.key,
                     SubSeq(data, 2, 1 + NonceSize), <<>>)

\* readMetadata that takes any byte other than PASSWORD for NO_PASSWORD
readMetadataLenient(data) ==
  IF data = <<>> THEN [err |-> TRUE, hasPassword |-> FALSE]
  ELSE [err |-> FALSE, hasPassword |-> data[1] = PASSWORD]

\* readMetadata(reader): one byte is read
readMetadata(data) ==
  IF data = <<>> THEN [err |-> TRUE, hasPassword |-> FALSE]
  ELSE IF data[1] = NO_PASSWORD THEN [err |-> FALSE, hasPassword |-> FALSE]
  ELSE IF data[1] = PASSWORD THEN [err |-> FALSE, hasPassword |-> TRUE]
  ELSE [err |-> TRUE, hasPassword |-> FALSE]

\* DecryptStream(reader, writer, password): the status returned, the bytes
\* written and the number of bytes read from the reader
DecryptStream(data, pw) ==
  LET m == readMetadata(data) IN
  IF m.err THEN [err |-> TRUE, out |-> <<>>, read |-> Min(1, Len(data))]
  ELSE IF ~m.hasPassword
    THEN [err |-> FALSE, out |-> Tail(data), read |-> Len(data)]
  ELSE decryptWithPassword(data, pw)

(***************************************************************************)
(* Specification SpecCrypt: EncryptStream on every plaintext and password  *)
(* below, then DecryptStream on the envelope with any of the passwords.    *)
(***************************************************************************)
\* plaintexts that end a byte before, at and a byte after the end of each of
\* the first MaxChunks read buffers
PlainLengths ==
  {n \in 0..(MaxChunks * BUFFER_SIZE + 1) :
     \E c \in 0..MaxChunks : n \in {c * BUFFER_SIZE - 1, c * BUFFER_SIZE, c * BUFFER_SIZE + 1}}

Plaintexts == {Rep(<<7, 8, 9>>, n) : n \in PlainLengths}

\* no password, a short one, the same with the padding byte appended, one of
\* KeyLen bytes and one a byte longer
Passwords ==
  {<<>>, <<97>>, <<97, KeyPad>>, Rep(<<97, 98>>, KeyLen), Rep(<<97, 98>>, KeyLen + 1)}

\* the nonces generateNonce may draw
Nonces == {Rep(<<0>>, NonceSize), Rep(<<1, 2>>, NonceSize)}

CryptInit ==
  /\ kpc = "start"
  /\ plain \in Plaintexts
  /\ password \in Passwords
  /\ envelope = <<>>
  /\ dpassword = <<>>
  /\ recovered = <<>>
  /\ eread = 0
  /\ dread = 0
  /\ corruption = "none"
  /\ esplit = <<>>
  /\ dsplit = <<>>
  /\ HuffIdle
  /\ CodecIdle
  /\ TableIdle
  /\ ArchIdle
  /\ GatherIdle

\* EncryptStream(reader, writer, password)
CryptEncrypt ==
  /\ kpc = "start"
  /\ \E nonce \in Nonces :
       LET e == EncryptStream(plain, password, nonce) IN
       /\ envelope' = e.out
       /\ eread' = e.read
       /\ kpc' = IF e.err THEN "encrypt_error" ELSE "encrypted"
  /\ UNCHANGED <<plain, password, dpassword, recovered, dread, corruption, esplit, dsplit,
                 huffVars, codecVars, tableVars, archVars, gatherVars>>

\* DecryptStream(reader, writer, password) on the envelope as it is
CryptDecrypt ==
  /\ kpc \in {"encrypted", "corrupted"}
  /\ \E q \in Passwords :
       LET d == DecryptStream(envelope, q) IN
       /\ dpassword' = q
       /\ recovered' = d.out
       /\ dread' = d.read
       /\ kpc' = IF d.err THEN "decrypt_error" ELSE "decrypted"
  /\ UNCHANGED <<plain, password, envelope, eread, corruption, esplit, dsplit,
                 huffVars, codecVars, tableVars, archVars, gatherVars>>

CryptNext == CryptEncrypt \/ CryptDecrypt

SpecCrypt == CryptInit /\ [][CryptNext]_vars

\* C3: DecryptStream with the password p of at most 32 bytes (the empty
\* one included) on the envelope EncryptStream wrote for X with p returns
\* no error and writes exactly X.
C3_EnvelopeRoundTrip ==
  kpc \in {"decrypted", "decrypt_error"} /\ dpassword = password =>
    kpc = "decrypted" /\ recovered = plain

\* a plaintext of more than two chunks, sealed and opened with a password
C3_Witness ==
  /\ kpc = "decrypted"
  /\ dpassword = password
  /\ password # <<>>
  /\ Len(plain) > 2 * BUFFER_SIZE
  /\ recovered = plain

\* C11: DecryptStream on an envelope EncryptStream wrote with a non-empty
\* password p returns an error for every password q other than p.
C11_WrongPasswordFails ==
  (kpc \in {"decrypted", "decrypt_error"} /\ password # <<>> /\ dpassword # password)
    => kpc = "decrypt_error"

\* C13: with a password of more than 32 bytes EncryptStream returns its
\* error before any I/O: nothing is written, the sentinel included, and
\* nothing is read.
C13_NoIOBeforeError ==
  (kpc \in {"encrypted", "encrypt_error"} /\ Len(password) > 32) =>
    /\ kpc = "encrypt_error"
    /\ envelope = <<>>
    /\ eread = 0

\* C16: for a password p of at most 32 bytes generateKey returns a key of
\* 32 bytes, p followed by bytes 0x30 (a 32-byte p unchanged); for a longer
\* password it returns an error and no key.
C16_KeyDerivation ==
  kpc \in {"encrypted", "encrypt_error"} =>
    LET k == generateKey(password)
        n == Len(password)
    IN IF n <= 32
         THEN /\ ~k.err
              /\ Len(k.key) = 32
              /\ SubSeq(k.key, 1, n) = password
              /\ \A i \in (n + 1)..32 : k.key[i] = 48
              /\ (n = 32 => k.key = password)
         ELSE k.err /\ k.key = <<>>

\* a short password has been padded to a key by EncryptStream
C16_Witness ==
  /\ kpc = "encrypted"
  /\ Len(password) = 1
  /\ plain # <<>>
  /\ envelope[Len(envelope)].k = generateKey(password).key

\* The envelope is the sentinel 57, one 12-byte nonce, and the plaintext
\* sealed in consecutive chunks of S bytes, the last one possibly shorter,
\* every chunk with that nonce and followed by its 16-byte tag.
ChunkLayout(S) ==
  LET nonce == SubSeq(envelope, 2, 13)
      nchunks == (Len(plain) + S - 1) \div S
      ChunkLen(c) == Min(S, Len(plain) - c * S)
      Start(c) == 13 + c * (S + 16)
  IN /\ envelope[1] = 57
     /\ Len(envelope) = 13 + Len(plain) + 16 * nchunks
     /\ \A c \in 0..(nchunks - 1) : \A j \in 1..(ChunkLen(c) + 16) :
          LET e == envelope[Start(c) + j] IN
          /\ e.n = nonce
          /\ j <= ChunkLen(c) =>
               e.t = "ct" /\ e.i = j /\ e.v = <<plain[c * S + j]>>
          /\ j > ChunkLen(c) =>
               /\ e.t = "tag"
               /\ e.i = j - ChunkLen(c)
               /\ e.v = SubSeq(plain, c * S + 1, c * S + ChunkLen(c))

ForgedByte == [t |-> "tag", k |-> <<>>, n |-> <<>>, i |-> 0, v |-> <<>>]

\* the ways an envelope is corrupted: its sentinel overwritten (as in
\* TestDecryptInvalidData), its last byte lost, or the last byte of its
\* last sealed chunk changed
Corrupted(env, kind) ==
  CASE kind = "sentinel" -> [env EXCEPT ![1] = 3]
    [] kind = "truncate" -> SubSeq(env, 1, Len(env) - 1)
    [] kind = "tamper" -> [env EXCEPT ![Len(env)] = ForgedByte]

\* the envelope is damaged on its way to DecryptStream
CryptCorrupt ==
  /\ kpc = "encrypted"
  /\ \E kind \in {"sentinel", "truncate", "tamper"} :
       /\ kind = "tamper" => envelope[1] = PASSWORD /\ Len(envelope) > 1 + NonceSize
       /\ envelope' = Corrupted(envelope, kind)
       /\ corruption' = kind
  /\ kpc' = "corrupted"
  /\ UNCHANGED <<plain, password, dpassword, recovered, eread, dread, esplit, dsplit,
                 huffVars, codecVars, tableVars, archVars, gatherVars>>

WireNext == CryptEncrypt \/ CryptCorrupt \/ CryptDecrypt

SpecWire == CryptInit /\ [][WireNext]_vars

\* the sealed chunks of an envelope as decryptStream cuts them, and whether
\* one of them does not open under the key of password pw
AuthFails(env, pw) ==
  LET size == BUFFER_SIZE + Overhead
      body == Len(env) - 1 - NonceSize
      nonce == SubSeq(env, 2, 1 + NonceSize)
  IN /\ body > 0
     /\ \E c \in 0..((body - 1) \div size) :
          Open(generateKey(pw).key, nonce,
               SubSeq(env, 2 + NonceSize + c * size,
                      Min(Len(env), 1 + NonceSize + (c + 1) * size))).err

\* C12: if a sealed chunk fails authentication, DecryptStream returns an
\* error and has written no plaintext at all.
C12_NoPlaintextOnAuthFailure ==
  (/\ kpc \in {"decrypted", "decrypt_error"}
   /\ envelope # <<>>
   /\ envelope[1] = PASSWORD
   /\ dpassword # <<>>
   /\ Len(dpassword) <= KeyLen
   /\ AuthFails(envelope, dpassword))
    => kpc = "decrypt_error" /\ recovered = <<>>

\* C14: with the empty password DecryptStream fails on an envelope whose
\* sentinel is 57 and writes nothing; it succeeds with the empty password
\* if and only if the sentinel is 43.
C14_PasswordRequired ==
  (kpc \in {"decrypted", "decrypt_error"} /\ dpassword = <<>>) =>
    /\ (envelope # <<>> /\ envelope[1] = 57) =>
          kpc = "decrypt_error" /\ recovered = <<>>
    /\ kpc = "decrypted" <=> (envelope # <<>> /\ envelope[1] = 43)

\* an envelope sealed with a password is opened without one
C14_Witness ==
  /\ kpc = "decrypt_error"
  /\ dpassword = <<>>
  /\ password # <<>>
  /\ envelope # <<>>
  /\ envelope[1] = 57

\* C15: on input whose first byte is neither 43 nor 57 DecryptStream
\* returns an error having read that one byte only and written nothing,
\* whatever the password.
C15_CorruptSentinel ==
  (/\ kpc \in {"decrypted", "decrypt_error"}
   /\ envelope # <<>>
   /\ envelope[1] \notin {43, 57})
    => kpc = "decrypt_error" /\ dread = 1 /\ recovered = <<>>

\* an envelope with an overwritten sentinel is given to DecryptStream with
\* a password
C15_Witness ==
  /\ kpc = "decrypt_error"
  /\ corruption = "sentinel"
  /\ dpassword # <<>>
  /\ Len(envelope) > 1
  /\ dread = 1

(***************************************************************************)
(* Specification SpecStored: as SpecArchive, but the container may be      *)
(* damaged between Zip and Unzip: a byte appended after the last record,   *)
(* the last byte (of the last record's payload) lost, or the count of      *)
(* files overwritten with zero.                                            *)
(***************************************************************************)
ArchDamage ==
  /\ apc = "zipped"
  /\ \E kind \in {"append", "truncate", "nofiles"} :
       /\ damage' = kind
       /\ container' = IF kind = "append" THEN Append(container, 0)
                       ELSE IF kind = "truncate"
                         THEN SubSeq(container, 1, Len(container) - 1)
                       ELSE WriteAt(container, ReadHuffmanCodes(container, 0).pos,
                                    LEBytes(0, 8))
  /\ apc' = "damaged"
  /\ UNCHANGED <<files, acodes, unzipped, fault,
                 huffVars, codecVars, tableVars, cryptVars, gatherVars>>

StoredNext == ArchZip \/ ArchDamage \/ ArchUnzip

SpecStored == ArchInit /\ [][StoredNext]_vars

\* C18: Unzip returns an error when a byte follows the payload of the last
\* record.
C18_TrailingDataRejected ==
  (apc \in {"unzipped", "error", "panic"} /\ damage = "append") => apc = "error"

\* C19: Unzip returns an error when the length field of a record exceeds
\* the bytes that remain (the last payload has lost its last byte).
C19_TruncatedPayloadRejected ==
  (apc \in {"unzipped", "error", "panic"} /\ damage = "truncate") => apc = "error"

(***************************************************************************)
(* Specification SpecField: as SpecCodec, but the count of valid bits in   *)
(* the trailer of the field may be changed before decompressData reads it. *)
(***************************************************************************)
CodecDamage ==
  /\ cpc = "compressed"
  /\ \E v \in 0..7 :
       /\ v # compressed[Len(compressed)]
       /\ compressed' = [compressed EXCEPT ![Len(compressed)] = v]
  /\ cpc' = "damaged"
  /\ UNCHANGED <<corpus, ccodes, input, compLen, decompressed, dstatus, splits,
                 huffVars, tableVars, archVars, cryptVars, gatherVars>>

FieldNext == CodecEmpty \/ CodecBuild \/ CodecCompress \/ CodecDamage \/ CodecDecompress

SpecField == CodecInit /\ [][FieldNext]_vars

\* the meaningful bits of a field: those of its full bytes, then the first
\* validBits bits of its final byte
FieldBits(field) ==
  [i \in 1..(8 * (Len(field) - 2) + field[Len(field)]) |->
     BitOf(field[((i - 1) \div 8) + 1], 7 - ((i - 1) % 8))]

\* the node a decoder is at after the bits lo..hi, having started at node
\* and returning to the root after every leaf; NilNode if a bit leads
\* nowhere
RECURSIVE NodeAfter(_, _, _, _, _)
NodeAfter(t, bits, lo, hi, node) ==
  IF lo > hi THEN node
  ELSE IF lo = hi
    THEN LET nd == Child(t, node, bits[lo]) IN
         IF nd = NilNode THEN NilNode
         ELSE IF TreeLeaf(t, nd) THEN <<>> ELSE nd
  ELSE LET mid == (lo + hi) \div 2
           n1 == NodeAfter(t, bits, lo, mid, node)
       IN IF n1 = NilNode THEN NilNode ELSE NodeAfter(t, bits, mid + 1, hi, n1)

\* the field ends inside a code: after its meaningful bits the decoder is
\* at an internal node other than the root
EndsInside ==
  LET bits == FieldBits(compressed)
      t == rebuildHuffmanTree(ccodes, SortedSeq(DOMAIN ccodes))
  IN NodeAfter(t, bits, 1, Len(bits), <<>>) \notin {<<>>, NilNode}

\* C20: decoding a field returns an error when the decoder is at an
\* internal node after all the meaningful bits of the field.
C20_ExtraBitsRejected ==
  (cpc = "decompressed" /\ EndsInside) => dstatus = "error"

(***************************************************************************)
(* Specification SpecFault: Zip on files whose reader serves the frequency *)
(* pass of generateCodes and then, while compressData encodes one of them, *)
(* returns an error other than io.EOF from one of its reads.               *)
(***************************************************************************)
\* the read loop of compressData on a reader whose read number readsLeft + 1
\* from here fails: `return 0, fmt.Errorf(BUFFER_READ_ERROR, err)` with
\* the bytes of the earlier iterations written
RECURSIVE CompressLoopFault(_, _, _, _, _)
CompressLoopFault(data, pos, cs, st, readsLeft) ==
  LET n == Min(BUFFER_SIZE, Len(data) - pos) IN
  IF readsLeft = 0 THEN [err |-> TRUE, out |-> st.out, len |-> 0]
  ELSE IF n = 0
    THEN [err |-> FALSE,
          out |-> st.out \o <<FinalByte(st.cur, st.bits), st.bits>>,
          len |-> st.clen + 2]
    ELSE LET st2 == processByte(SubSeq(data, pos + 1, pos + n), cs, st) IN
         IF st2.err THEN [err |-> TRUE, out |-> st2.out, len |-> 0]
         ELSE CompressLoopFault(data, pos + n, cs, st2, readsLeft - 1)

\* one iteration of the loop of Zip for the file whose read number failAt
\* fails: Zip returns at `if err != nil` after compressData, with the
\* name, the placeholder and what compressData wrote left in the output
ZipFileFault(out, file, cs, failAt) ==
  LET nm == writeFileName(file.name, cs)
      c == CompressLoopFault(file.data, 0, cs,
                             [cur |-> 0, bits |-> 0, clen |-> 0, out |-> <<>>,
                              err |-> FALSE], failAt - 1)
      out3 == out \o nm.out \o LEBytes(0, 8) \o c.out
      off == Len(out3) - (c.len + 8)
  IN IF nm.err \/ c.err \/ off < 0 THEN [err |-> TRUE, out |-> out3]
     ELSE [err |-> FALSE, out |-> WriteAt(out3, off, LEBytes(c.len, 8))]

RECURSIVE ZipFilesFault(_, _, _, _, _)
ZipFilesFault(out, fs, i, cs, flt) ==
  IF i > Len(fs) THEN [err |-> FALSE, out |-> out]
  ELSE LET z == IF i = flt.file THEN ZipFileFault(out, fs[i], cs, flt.read)
                ELSE ZipFile(out, fs[i], cs)
       IN IF z.err THEN z ELSE ZipFilesFault(z.out, fs, i + 1, cs, flt)

\* Zip(files, output) with the failing read flt, once generateCodes has
\* returned the codes cs and written them in the order ord
ZipFault(fs, cs, ord, flt) ==
  ZipFilesFault(WriteHuffmanCodes(cs, ord) \o LEBytes(Len(fs), 8), fs, 1, cs, flt)

\* the reads compressData makes of a payload: one for every buffer of data
\* and the one that returns io.EOF
ReadsOf(data) == ((Len(data) + BUFFER_SIZE - 1) \div BUFFER_SIZE) + 1

\* the reads of the encoding pass that may fail
Faults(fs) ==
  {[file |-> i, read |-> r] : i \in 1..Len(fs), r \in 1..(MaxChunks + 1)}
    \cap {flt \in [file : 1..Len(fs), read : 1..(MaxChunks + 1)] :
            flt.read <= ReadsOf(fs[flt.file].data)}

\* payloads read in one buffer and in two
FaultPayloads == {<<0>>, <<1, 0, 1>>, Rep(<<1, 0>>, BUFFER_SIZE + 1)}

FaultLists ==
  UNION {[1..n -> [name : ArchNames, data : FaultPayloads]] : n \in 1..MaxFiles}

FaultInit ==
  /\ apc = "start"
  /\ files \in FaultLists
  /\ acodes = EmptyMap
  /\ container = <<>>
  /\ unzipped = <<>>
  /\ damage = "none"
  /\ fault = NoFault
  /\ HuffIdle
  /\ CodecIdle
  /\ TableIdle
  /\ CryptIdle
  /\ GatherIdle

\* Zip(files, output) with one failing read in the encoding pass
ArchZipFault ==
  /\ apc = "start"
  /\ LET f == FilesFrequency(files, 1, EmptyMap) IN
     \E ord \in Perms(DOMAIN f) :
       LET cs == GetHuffmanCodes(f, ord) IN
       \E word \in Perms(DOMAIN cs) :
         \E flt \in Faults(files) :
           LET z == ZipFault(files, cs, word, flt)
           IN /\ acodes' = cs
              /\ container' = z.out
              /\ fault' = flt
              /\ apc' = IF z.err THEN "error" ELSE "zipped"
  /\ UNCHANGED <<files, unzipped, damage,
                 huffVars, codecVars, tableVars, cryptVars, gatherVars>>

FaultNext == ArchZipFault

SpecFault == FaultInit /\ [][FaultNext]_vars

\* the bytes Zip writes for one file: the name field, the 8-byte length
\* and the payload
RecordLen(file, cs) ==
  Len(writeFileName(file.name, cs).out) + 8 + Len(compressData(file.data, cs).out)

RECURSIVE RecordsLen(_, _, _)
RecordsLen(fs, k, cs) ==
  IF k = 0 THEN 0 ELSE RecordsLen(fs, k - 1, cs) + RecordLen(fs[k], cs)

\* C21: when a read of a record's payload fails while Zip encodes it, Zip
\* returns an error and the output ends with the last record before the
\* failing one: it holds nothing of the failing record, neither its name
\* field, nor its placeholder length, nor encoded payload bytes.
C21_NoPartialRecord ==
  (apc = "error" /\ fault # NoFault) =>
    Len(container) = ReadHuffmanCodes(container, 0).pos + 8
                       + RecordsLen(files, fault.file - 1, acodes)

\* Zip returns an error whenever a read of the encoding pass fails
FaultReturnsError == fault # NoFault => apc = "error"

\* C22: Unzip on a container whose count of files is zero returns an error
\* and creates no output file.
C22_EmptyArchiveRejected ==
  (apc \in {"unzipped", "error", "panic"} /\ damage = "nofiles") =>
    apc = "error" /\ unzipped = <<>>

\* Unzip has run on a container that holds records after a zero count
C22_Witness ==
  /\ apc = "error"
  /\ damage = "nofiles"
  /\ Len(files) = MaxFiles
  /\ unzipped = <<>>
  /\ Len(container) > ReadHuffmanCodes(container, 0).pos + 8

(***************************************************************************)
(* The layout of the container after Zip (SpecArchive)                     *)
(***************************************************************************)
\* the records of fs from number i on lie in data from pos on, one after the
\* other and up to the end of data: the name field, 8 bytes that hold the
\* number of bytes of the payload, the payload as compressData wrote it
RECURSIVE RecordsAt(_, _, _, _, _)
RecordsAt(data, pos, fs, i, cs) ==
  IF i > Len(fs) THEN pos = Len(data)
  ELSE LET nm == writeFileName(fs[i].name, cs).out
           payload == compressData(fs[i].data, cs).out
           p1 == pos + Len(nm)
           p2 == p1 + 8
           p3 == p2 + Len(payload)
       IN /\ p3 <= Len(data)
          /\ SubSeq(data, pos + 1, p1) = nm
          /\ SubSeq(data, p1 + 1, p2) = LEBytes(Len(payload), 8)
          /\ SubSeq(data, p2 + 1, p3) = payload
          /\ RecordsAt(data, p3, fs, i + 1, cs)

\* C23: after Zip has returned without error the 8-byte length field of
\* every record holds the number of bytes of that record's payload, trailer
\* included; the bytes written before and after the field (the code table,
\* the count of files, the name fields, the payloads) are as they were
\* written, and every record starts where the one before it ends, the last
\* one ending the output.
C23_LengthFixUp ==
  apc = "zipped" =>
    LET hdr == ReadHuffmanCodes(container, 0) IN
    /\ hdr.status = "ok"
    /\ hdr.codes = acodes
    /\ SubSeq(container, hdr.pos + 1, hdr.pos + 8) = LEBytes(Len(files), 8)
    /\ RecordsAt(container, hdr.pos + 8, files, 1, acodes)

\* Zip has written MaxFiles records, the first with a payload of full bytes
\* before its trailer, the last with a payload that is a trailer only
C23_Witness ==
  /\ apc = "zipped"
  /\ Len(files) = MaxFiles
  /\ Len(compressData(files[1].data, acodes).out) > 2
  /\ Len(compressData(files[Len(files)].data, acodes).out) = 2

(***************************************************************************)
(* Specification SpecSplit: as SpecCodec, but the reader of decompressData *)
(* returns short reads: read number i returns at most splits[i] bytes, the *)
(* reads after those fill the buffer as far as they can.                   *)
(***************************************************************************)
\* the read loop of decompressData on a reader that holds data from pos on
\* and returns at most Head(sched) bytes from the next read
RECURSIVE DecompressLoopSplit(_, _, _, _, _, _, _, _, _)
DecompressLoopSplit(t, data, pos, limiter, dataRead, toRead, loopFlag, st, sched) ==
  LET bytesToRead == IF dataRead <= limiter
                       THEN Min(BUFFER_SIZE, limiter - dataRead) ELSE toRead
      avail == Min(bytesToRead, Len(data) - pos)
      n == IF sched = <<>> THEN avail ELSE Min(avail, Head(sched))
      rest == IF sched = <<>> THEN sched ELSE Tail(sched)
  IN IF n = 0
       THEN LET r == decompressRemainingBits(t, st.ds.lob, st.ds.cnt,
                                             st.last[2], st.last[1], st.ds.out)
            IN [status |-> IF r.panic THEN "panic" ELSE "ok",
                out |-> r.out, read |-> pos]
       ELSE \* adjustBuffer
            LET n2 == IF loopFlag # 0 THEN n + 2 ELSE n
                rb == IF loopFlag # 0
                        THEN st.last \o SubSeq(data, pos + 1, pos + n)
                        ELSE SubSeq(data, pos + 1, pos + n)
            IN IF n2 < 2
                 THEN [status |-> "panic", out |-> st.ds.out, read |-> pos + n]
                 ELSE LET ds2 == decompressFullByte(t, SubSeq(rb, 1, n2 - 2), st.ds) IN
                      IF ds2.panic
                        THEN [status |-> "panic", out |-> ds2.out, read |-> pos + n]
                        ELSE DecompressLoopSplit(t, data, pos + n, limiter, dataRead + n,
                                                 bytesToRead, 1,
                                                 [last |-> <<rb[n2 - 1], rb[n2]>>, ds |-> ds2],
                                                 rest)

\* decompressData(reader, writer, codes, limiter) on such a reader
decompressDataSplit(t, data, pos, limiter, sched) ==
  DecompressLoopSplit(t, data, pos, limiter, 0, BUFFER_SIZE, 0,
                      [last |-> <<0, 0>>,
                       ds |-> [lob |-> <<>>, cnt |-> 0, node |-> <<>>, out |-> <<>>,
                               panic |-> FALSE]],
                      sched)

\* the short reads: up to two of them, of 1 to 3 bytes
ReadSplits == SeqsUpTo(1..3, 2)

\* decompressData on the field, the reader splitting it
CodecDecompressSplit ==
  /\ cpc = "compressed"
  /\ \E ord \in RangeOrders(ccodes), sched \in ReadSplits :
       LET r == decompressDataSplit(rebuildHuffmanTree(ccodes, ord), compressed, 0,
                                    compLen, sched) IN
       /\ splits' = sched
       /\ decompressed' = r.out
       /\ dstatus' = r.status
  /\ cpc' = "decompressed"
  /\ UNCHANGED <<corpus, ccodes, input, compressed, compLen,
                 huffVars, tableVars, archVars, cryptVars, gatherVars>>

SplitNext == CodecEmpty \/ CodecBuild \/ CodecCompress \/ CodecDecompressSplit

SpecSplit == CodecInit /\ [][SplitNext]_vars

\* the tree rebuildHuffmanTree returns for the codes of the field
FieldTree == rebuildHuffmanTree(ccodes, CHOOSE ord \in RangeOrders(ccodes) : TRUE)

\* C24: however the reader splits the L bytes of a valid field into reads
\* of one byte or more, decompressData indexes no buffer out of range,
\* consumes exactly L bytes and writes what it writes when the field comes
\* in one read.
C24_SplitReadsEquivalent ==
  cpc = "decompressed" =>
    /\ dstatus = "ok"
    /\ decompressDataSplit(FieldTree, compressed, 0, compLen, splits).read = compLen
    /\ decompressed = decompressData(FieldTree, compressed, 0, compLen).out

\* the same when the first read returns two bytes or more
SplitAfterTwoBytes ==
  (cpc = "decompressed" /\ (splits = <<>> \/ splits[1] >= 2)) =>
    /\ dstatus = "ok"
    /\ decompressDataSplit(FieldTree, compressed, 0, compLen, splits).read = compLen
    /\ decompressed = decompressData(FieldTree, compressed, 0, compLen).out

(***************************************************************************)
(* Specification SpecShort: as SpecCrypt, but the readers of processStream *)
(* and decryptStream return short reads: read number i of the loop returns *)
(* at most esplit[i] (dsplit[i]) bytes, later reads fill the buffer as far *)
(* as they can.  The sentinel and the nonce are read with io.ReadFull and  *)
(* an envelope without password is copied with io.Copy, which read on      *)
(* until they have what they need.                                         *)
(***************************************************************************)
\* processStream on a reader that returns at most Head(sched) bytes from the
\* next read: what one read returns is sealed as one chunk
RECURSIVE processStreamSplit(_, _, _, _, _, _)
processStreamSplit(data, pos, key, nonce, out, sched) ==
  LET avail == Min(BUFFER_SIZE, Len(data) - pos)
      n == IF sched = <<>> THEN avail ELSE Min(avail, Head(sched))
      rest == IF sched = <<>> THEN sched ELSE Tail(sched)
  IN IF n = 0 THEN out
     ELSE processStreamSplit(data, pos + n, key, nonce,
                             out \o Seal(key, nonce, SubSeq(data, pos + 1, pos + n)),
                             rest)

\* EncryptStream(reader, writer, password) on such a reader
EncryptStreamSplit(data, pw, nonce, sched) ==
  LET meta == writeMetadata(pw)
      k == generateKey(pw)
  IN IF pw = <<>> THEN [err |-> FALSE, out |-> meta \o data, read |-> Len(data)]
     ELSE IF k.err THEN [err |-> TRUE, out |-> meta, read |-> 0]
     ELSE [err |-> FALSE,
           out |-> processStreamSplit(data, 0, k.key, nonce, meta \o nonce, sched),
           read |-> Len(data)]

\* decryptStream on a reader that returns at most Head(sched) bytes from the
\* next read: what one read returns is opened as one chunk
RECURSIVE decryptStreamSplit(_, _, _, _, _, _)
decryptStreamSplit(data, pos, key, nonce, out, sched) ==
  LET avail == Min(DecryptBuffer(Overhead), Len(data) - pos)
      n == IF sched = <<>> THEN avail ELSE Min(avail, Head(sched))
      rest == IF sched = <<>> THEN sched ELSE Tail(sched)
  IN IF n = 0 THEN [err |-> FALSE, out |-> out, read |-> pos]
     ELSE LET o == Open(key, nonce, SubSeq(data, pos + 1, pos + n)) IN
          IF o.err THEN [err |-> TRUE, out |-> out, read |-> pos + n]
          ELSE decryptStreamSplit(data, pos + n, key, nonce, out \o o.pt, rest)

\* decryptWithPassword(reader, writer, password) on such a reader
decryptWithPasswordSplit(data, pw, sched) ==
  LET k == generateKey(pw) IN
  IF pw = <<>> \/ k.err THEN [err |-> TRUE, out |-> <<>>, read |-> 1]
  ELSE IF Len(data) - 1 < NonceSize
    THEN [err |-> TRUE, out |-> <<>>, read |-> Len(data)]
  ELSE decryptStreamSplit(data, 1 + NonceSize, k.key,
                          SubSeq(data, 2, 1 + NonceSize), <<>>, sched)

\* DecryptStream(reader, writer, password) on such a reader
DecryptStreamSplit(data, pw, sched) ==
  LET m == readMetadata(data) IN
  IF m.err THEN [err |-> TRUE, out |-> <<>>, read |-> Min(1, Len(data))]
  ELSE IF ~m.hasPassword
    THEN [err |-> FALSE, out |-> Tail(data), read |-> Len(data)]
  ELSE decryptWithPasswordSplit(data, pw, sched)

\* the short reads: none, a first read of one byte, a first read of 100
\* bytes, a second read of 100 bytes after a full first one
ShortReads == {<<>>, <<1>>, <<100>>, <<BUFFER_SIZE + Overhead, 100>>}

CryptEncryptSplit ==
  /\ kpc = "start"
  /\ \E nonce \in Nonces, sched \in ShortReads :
       LET e == EncryptStreamSplit(plain, password, nonce, sched) IN
       /\ esplit' = sched
       /\ envelope' = e.out
       /\ eread' = e.read
       /\ kpc' = IF e.err THEN "encrypt_error" ELSE "encrypted"
  /\ UNCHANGED <<plain, password, dpassword, recovered, dread, corruption, dsplit,
                 huffVars, codecVars, tableVars, archVars, gatherVars>>

CryptDecryptSplit ==
  /\ kpc = "encrypted"
  /\ \E q \in Passwords, sched \in ShortReads :
       LET d == DecryptStreamSplit(envelope, q, sched) IN
       /\ dsplit' = sched
       /\ dpassword' = q
       /\ recovered' = d.out
       /\ dread' = d.read
       /\ kpc' = IF d.err THEN "decrypt_error" ELSE "decrypted"
  /\ UNCHANGED <<plain, password, envelope, eread, corruption, esplit,
                 huffVars, codecVars, tableVars, archVars, gatherVars>>

ShortNext == CryptEncryptSplit \/ CryptDecryptSplit

SpecShort == CryptInit /\ [][ShortNext]_vars

\* C25: DecryptStream with the password of EncryptStream returns the
\* plaintext without error however the readers of the two sides split the
\* data into reads.
C25_SplitIndependent ==
  (kpc \in {"decrypted", "decrypt_error"} /\ dpassword = password) =>
    kpc = "decrypted" /\ recovered = plain

\* the same when neither reader returns a short read in mid-stream
RoundTripOnFullReads ==
  (kpc \in {"decrypted", "decrypt_error"} /\ dpassword = password
     /\ esplit = <<>> /\ dsplit = <<>>) =>
    kpc = "decrypted" /\ recovered = plain

(***************************************************************************)
(* Specification SpecChunks: as SpecCrypt, but the sequence of sealed      *)
(* chunks of an envelope of two chunks or more may be changed before       *)
(* DecryptStream reads it: the final chunk removed, the first chunk        *)
(* repeated, or the first two chunks exchanged.                            *)
(***************************************************************************)
\* the bytes of the envelope before the first sealed chunk: the sentinel
\* and the nonce
ChunksStart == 1 + NonceSize

\* the number of sealed chunks processStream wrote
NumChunks(env) ==
  (Len(env) - ChunksStart + DecryptBuffer(Overhead) - 1) \div DecryptBuffer(Overhead)

\* the k-th sealed chunk of the envelope
ChunkAt(env, k) ==
  SubSeq(env, ChunksStart + (k - 1) * DecryptBuffer(Overhead) + 1,
         Min(ChunksStart + k * DecryptBuffer(Overhead), Len(env)))

\* the chunks from number k on
ChunksFrom(env, k) ==
  SubSeq(env, ChunksStart + (k - 1) * DecryptBuffer(Overhead) + 1, Len(env))

Rechunked(env, kind) ==
  IF kind = "drop"
    THEN SubSeq(env, 1, ChunksStart + (NumChunks(env) - 1) * DecryptBuffer(Overhead))
  ELSE IF kind = "dup"
    THEN SubSeq(env, 1, ChunksStart) \o ChunkAt(env, 1) \o ChunksFrom(env, 1)
  ELSE SubSeq(env, 1, ChunksStart) \o ChunkAt(env, 2) \o ChunkAt(env, 1)
         \o ChunksFrom(env, 3)

CryptRechunk ==
  /\ kpc = "encrypted"
  /\ password # <<>>
  /\ NumChunks(envelope) >= 2
  /\ \E kind \in {"drop", "dup", "swap"} :
       /\ kind = "swap" => Len(ChunkAt(envelope, 1)) = Len(ChunkAt(envelope, 2))
       /\ Rechunked(envelope, kind) # envelope
       /\ corruption' = kind
       /\ envelope' = Rechunked(envelope, kind)
  /\ kpc' = "corrupted"
  /\ UNCHANGED <<plain, password, dpassword, recovered, eread, dread, esplit, dsplit,
                 huffVars, codecVars, tableVars, archVars, gatherVars>>

ChunksNext == CryptEncrypt \/ CryptRechunk \/ CryptDecrypt

SpecChunks == CryptInit /\ [][ChunksNext]_vars

\* C26: DecryptStream with the correct password returns an error when the
\* final chunk of a multi-chunk envelope was removed, a chunk was
\* duplicated or two chunks of equal length were exchanged.
C26_ChunkSequenceProtected ==
  (kpc \in {"decrypted", "decrypt_error"} /\ corruption \in {"drop", "dup", "swap"}
     /\ dpassword = password) =>
    kpc = "decrypt_error"

\* every such change to the sequence of whole chunks goes unnoticed
ChunkChangesAccepted ==
  (kpc \in {"decrypted", "decrypt_error"} /\ corruption \in {"drop", "dup", "swap"}
     /\ dpassword = password
     /\ Len(envelope) % DecryptBuffer(Overhead) = ChunksStart) =>
    kpc = "decrypted" /\ recovered # plain

(***************************************************************************)
(* Specification SpecGather: Compress (compressor.go) gathering its input  *)
(* files.  names[i] is what the file system holds for the i-th name:       *)
(*   "file"        a regular file that os.ReadFile reads                   *)
(*   "unreadable"  a regular file on which os.ReadFile fails               *)
(*   "missing"     os.Stat reports that the path does not exist            *)
(*   "staterr"     os.Stat fails with another error (ENOTDIR, EACCES):     *)
(*                 info is nil and os.IsNotExist(err) is false             *)
(*   "dir"         a directory holding one file, walked without error      *)
(*   "baddir"      a directory whose walk returns an error                 *)
(* gor[i] is the position of the goroutine started for names[i], gfiles    *)
(* the shared slice `files` (an entry is the number of the input it was    *)
(* read from), errChan the buffered channel and wg the WaitGroup counter.  *)
(* `files = append(files, ...)` is not synchronized: a goroutine loads the *)
(* slice header (gsnap[i]) and stores the extended slice in two steps.     *)
(***************************************************************************)
InputKinds == {"file", "unreadable", "missing", "staterr", "dir", "baddir"}

NameLists == UNION {[1..n -> InputKinds] : n \in 0..MaxNames}

GatherInit ==
  /\ gpc = "start"
  /\ names \in NameLists
  /\ gor = [i \in 1..Len(names) |-> "none"]
  /\ gfiles = <<>>
  /\ gsnap = [i \in 1..Len(names) |-> <<>>]
  /\ errChan = <<>>
  /\ wg = 0
  /\ HuffIdle
  /\ CodecIdle
  /\ TableIdle
  /\ ArchIdle
  /\ CryptIdle

otherVars == <<huffVars, codecVars, tableVars, archVars, cryptVars>>

\* cap(errChan): make(chan error, len(filenameStrs))
ChanCap == Len(names)

\* the processor runs: no goroutine has panicked
Running == gpc \in {"start", "wait"}

\* `if len(filenameStrs) == 0 { return errors.New(...) }`
GatherEmpty ==
  /\ gpc = "start"
  /\ names = <<>>
  /\ gpc' = "failed"
  /\ UNCHANGED <<names, gor, gfiles, gsnap, errChan, wg, otherVars>>

\* one iteration of `for _, filename := range filenameStrs`: wg.Add(1) and
\* the go statement; after the last one Compress is at wg.Wait()
GatherSpawn ==
  /\ gpc = "start"
  /\ \E k \in 1..Len(names) :
       /\ gor[k] = "none"
       /\ \A j \in 1..(k - 1) : gor[j] # "none"
       /\ wg' = wg + 1
       /\ gor' = [gor EXCEPT ![k] = "stat"]
       /\ gpc' = IF k = Len(names) THEN "wait" ELSE "start"
  /\ UNCHANGED <<names, gfiles, gsnap, errChan, otherVars>>

\* os.Stat(filename), the test os.IsNotExist(err) and info.IsDir(), which
\* dereferences the nil info when Stat failed with another error: the
\* panic ends the process
GoStat ==
  /\ Running
  /\ \E i \in 1..Len(names) :
       /\ gor[i] = "stat"
       /\ gor' = [gor EXCEPT ![i] =
                    IF names[i] = "missing" THEN "send"
                    ELSE IF names[i] = "staterr" THEN "panicked"
                    ELSE IF names[i] \in {"dir", "baddir"} THEN "walk"
                    ELSE "read"]
       /\ gpc' = IF names[i] = "staterr" THEN "crashed" ELSE gpc
  /\ UNCHANGED <<names, gfiles, gsnap, errChan, wg, otherVars>>

\* os.ReadFile(filename)
GoRead ==
  /\ Running
  /\ \E i \in 1..Len(names) :
       /\ gor[i] = "read"
       /\ gor' = [gor EXCEPT ![i] = IF names[i] = "unreadable" THEN "send" ELSE "load"]
  /\ UNCHANGED <<gpc, names, gfiles, gsnap, errChan, wg, otherVars>>

\* compressFolderRecursive(filename, &files) up to its append or its error
GoWalk ==
  /\ Running
  /\ \E i \in 1..Len(names) :
       /\ gor[i] = "walk"
       /\ gor' = [gor EXCEPT ![i] = IF names[i] = "baddir" THEN "send" ELSE "load"]
  /\ UNCHANGED <<gpc, names, gfiles, gsnap, errChan, wg, otherVars>>

\* append(files, ...): the slice is read
GoLoad ==
  /\ Running
  /\ \E i \in 1..Len(names) :
       /\ gor[i] = "load"
       /\ gsnap' = [gsnap EXCEPT ![i] = gfiles]
       /\ gor' = [gor EXCEPT ![i] = "store"]
  /\ UNCHANGED <<gpc, names, gfiles, errChan, wg, otherVars>>

\* files = ...: the slice that was read, extended by the entry, is stored
GoStore ==
  /\ Running
  /\ \E i \in 1..Len(names) :
       /\ gor[i] = "store"
       /\ gfiles' = Append(gsnap[i], i)
       /\ gor' = [gor EXCEPT ![i] = "exit"]
  /\ UNCHANGED <<gpc, names, gsnap, errChan, wg, otherVars>>

\* errChan <- err, which blocks while the buffer is full
GoSend ==
  /\ Running
  /\ \E i \in 1..Len(names) :
       /\ gor[i] = "send"
       /\ Len(errChan) < ChanCap
       /\ errChan' = Append(errChan, i)
       /\ gor' = [gor EXCEPT ![i] = "exit"]
  /\ UNCHANGED <<gpc, names, gfiles, gsnap, wg, otherVars>>

\* the deferred wg.Done() when the goroutine returns
GoExit ==
  /\ Running
  /\ \E i \in 1..Len(names) :
       /\ gor[i] = "exit"
       /\ wg' = wg - 1
       /\ gor' = [gor EXCEPT ![i] = "done"]
  /\ UNCHANGED <<gpc, names, gfiles, gsnap, errChan, otherVars>>

\* wg.Wait() returns, close(errChan), and the loop over errChan: the first
\* error is returned, without one Compress goes on to Zip(files)
GatherWait ==
  /\ gpc = "wait"
  /\ wg = 0
  /\ gpc' = IF errChan # <<>> THEN "failed" ELSE "gathered"
  /\ UNCHANGED <<names, gor, gfiles, gsnap, errChan, wg, otherVars>>

GatherNext ==
  \/ GatherEmpty
  \/ GatherSpawn
  \/ GoStat
  \/ GoRead
  \/ GoWalk
  \/ GoLoad
  \/ GoStore
  \/ GoSend
  \/ GoExit
  \/ GatherWait

SpecGather == GatherInit /\ [][GatherNext]_vars

\* the Go scheduler runs every goroutine that can take a step
SpecGatherFair == SpecGather /\ WF_vars(GatherNext)

\* C27: once all the goroutines have finished without error, the shared
\* list holds exactly one entry for every input file, whatever the
\* interleaving of the appends.
C27_NoEntryLost ==
  gpc = "gathered" =>
    \A i \in 1..Len(names) :
      Cardinality({j \in 1..Len(gfiles) : gfiles[j] = i}) = 1

\* C28: the files handed to Zip are in the order in which the caller gave
\* their names, whatever the scheduling of the goroutines.
C28_CallerOrder ==
  gpc = "gathered" => gfiles = [i \in 1..Len(names) |-> i]

\* no goroutine has sent twice, and none is blocked on its send
SendsNeverBlock ==
  /\ \A j, k \in 1..Len(errChan) : errChan[j] = errChan[k] => j = k
  /\ \A i \in 1..Len(gor) : gor[i] = "send" => Len(errChan) < ChanCap

\* every goroutine has reached wg.Done and wg.Wait has returned
GatherReturned ==
  /\ gpc \in {"gathered", "failed"}
  /\ \A i \in 1..Len(gor) : gor[i] = "done"
  /\ wg = 0

\* C30: every goroutine sends at most one error on the channel, whose
\* capacity is the number of goroutines, so no send blocks, and for every
\* combination of failing and succeeding inputs every goroutine reaches
\* wg.Done, wg.Wait returns and the gatherer returns.
C30_GathererTerminates == []SendsNeverBlock /\ <>GatherReturned

\* the gatherer returns or the process dies of a panic
ReturnsOrPanics == <>(GatherReturned \/ gpc = "crashed")

(***************************************************************************)
(* SpecDeep: decompressData on code tables whose longest codes do not fit  *)
(* in the 32 bits of leftOverByte.  The frequency maps are those that      *)
(* getFrequencyMap returns for a file in which byte s occurs Fib(s + 1)    *)
(* times: buildHuffmanTree turns them into a chain, so n symbols give      *)
(* codes of up to n - 1 bits.                                              *)
(***************************************************************************)
\* freq[s] after getFrequencyMap has counted the file: 1, 1, 2, 3, 5, ...
RECURSIVE FibCounts(_)
FibCounts(n) ==
  IF n <= 2 THEN [i \in 1..n |-> 1]
  ELSE LET p == FibCounts(n - 1) IN Append(p, p[n - 1] + p[n - 2])

FibFreq(n) == LET fs == FibCounts(n) IN [s \in 0..(n - 1) |-> fs[s + 1]]

\* the frequency maps: longest codes of 2, DeepSyms - 2, DeepSyms - 1 and
\* DeepSyms + 1 bits
DeepFreqs == {FibFreq(n) : n \in {3, DeepSyms - 1, DeepSyms, DeepSyms + 2}}

\* the inputs: one or two of the three rarest bytes and the most frequent
DeepInputs(f) ==
  LET top == Cardinality(DOMAIN f) - 1
  IN SeqsUpTo({0, 1, 2, top}, 2) \ {<<>>}

DeepInit ==
  /\ cpc = "start"
  /\ corpus = <<>>
  /\ ccodes = EmptyMap
  /\ input = <<>>
  /\ compressed = <<>>
  /\ compLen = 0
  /\ decompressed = <<>>
  /\ dstatus = "none"
  /\ splits = <<>>
  /\ hpc = "idle"
  /\ freq \in DeepFreqs
  /\ order = <<>>
  /\ codes = EmptyMap
  /\ root = (<<>> :> 0)
  /\ TableIdle
  /\ ArchIdle
  /\ CryptIdle
  /\ GatherIdle

\* GetHuffmanCodes(&freq); the frequencies differ but for the two rarest
\* bytes, so the order of `range *freq` is taken ascending or descending
DeepBuild ==
  /\ cpc = "start"
  /\ LET n == Cardinality(DOMAIN freq) IN
     \E ord \in {[i \in 1..n |-> i - 1], [i \in 1..n |-> n - i]} :
       /\ order' = ord
       /\ ccodes' = GetHuffmanCodes(freq, ord)
  /\ cpc' = "coded"
  /\ UNCHANGED <<corpus, input, compressed, compLen, decompressed, dstatus, splits,
                 hpc, freq, codes, root, tableVars, archVars, cryptVars, gatherVars>>

\* compressData on a part of the file
DeepCompress ==
  /\ cpc = "coded"
  /\ \E piece \in DeepInputs(freq) :
       LET r == compressData(piece, ccodes) IN
       /\ input' = piece
       /\ compressed' = r.out
       /\ compLen' = r.len
       /\ cpc' = IF r.err THEN "error" ELSE "compressed"
  /\ UNCHANGED <<corpus, ccodes, decompressed, dstatus, splits,
                 huffVars, tableVars, archVars, cryptVars, gatherVars>>

\* decompressData on the field, limiter the length compressData returned:
\* rebuildHuffmanTree(codes) first, then the read loop on the finished tree
DeepDecompress ==
  /\ cpc = "compressed"
  /\ \E t \in {rebuildHuffmanTree(ccodes, ord) : ord \in RangeOrders(ccodes)} :
       \E r \in {decompressData(t, compressed, 0, compLen)} :
         /\ decompressed' = r.out
         /\ dstatus' = r.status
  /\ cpc' = "decompressed"
  /\ UNCHANGED <<corpus, ccodes, input, compressed, compLen, splits,
                 huffVars, tableVars, archVars, cryptVars, gatherVars>>

DeepNext == DeepBuild \/ DeepCompress \/ DeepDecompress

SpecDeep == DeepInit /\ [][DeepNext]_vars

\* the number of bits compressData has written for the first k bytes
RECURSIVE BitsLen(_, _, _)
BitsLen(cs, data, k) ==
  IF k = 0 THEN 0 ELSE BitsLen(cs, data, k - 1) + Len(cs[data[k]])

\* the bits that decompressRemainingBits holds in remainingBits: those that
\* decompressFullByte has shifted into leftOverByte since the last leaf it
\* reached, and the numOfBits bits of the last byte
PendingBits ==
  LET total == BitsLen(ccodes, input, Len(input))
      numOfBits == compressed[Len(compressed)]
      ends == {BitsLen(ccodes, input, k) : k \in 0..Len(input)}
      leaf == CHOOSE e \in ends :
                /\ e <= total - numOfBits
                /\ \A d \in ends : d <= total - numOfBits => d <= e
  IN total - leaf

\* C29: decompressData decodes the last symbols of a payload correctly when
\* more than 32 bits are pending at the end of the payload: no bit of the
\* uint32 leftOverByte is lost.
C29_LongTailDecoded ==
  (cpc = "decompressed" /\ PendingBits > 32) =>
    (dstatus = "ok" /\ decompressed = input)

\* with at most 32 bits pending the payload is decoded as it was encoded
ShortTailDecoded ==
  (cpc = "decompressed" /\ PendingBits <= 32) =>
    (dstatus = "ok" /\ decompressed = input)
====
